---- MODULE Spec2Model ----
(***************************************************************************)
(* worm: the SLIM assembler and virtual machine (worm/slim) and the        *)
(* lowering engine that compiles a Python subset to SLIM (worm/compiler).  *)
(*                                                                         *)
(* Python integers are unbounded while TLC's are 32 bits wide, so a Python *)
(* int is represented exactly as four limbs <<d0, d1, d2, t>> of radix     *)
(* 2^16: value = d0 + d1*2^16 + d2*2^32 + t*2^48 with 0 <= d0,d1,d2 < 2^16 *)
(* and t a signed integer (floor decomposition, so the form is canonical). *)
(* Text (SLIM source, console lines) is a sequence of one-character        *)
(* strings.                                                                *)
(***************************************************************************)
EXTENDS Integers, Sequences, FiniteSets, TLC

VARIABLES
    commands,   \* SLIM.commands: the resolved program
    registers,  \* SLIM.registers: 32 Python ints
    mem,        \* SLIM.mem: dict from int to int
    pointer,    \* SLIM.pointer
    input,      \* StaticConsole.input: the lines not yet read
    output,     \* StaticConsole.output
    error,      \* StaticConsole.error
    ctl,        \* position of the control flow
    exc,        \* the exception raised last ("none" when none was)
    code,         \* Interpreter.interpret: the lines of the SLIM text
    parsed_val,   \* Interpreter.interpret: the result of parse
    named_val,    \* Interpreter.interpret: the result of do_name
    resolved_val, \* Interpreter.interpret: the result of resolve
    passes,       \* history: the functions interpret has called, in order
    source,     \* do_test_script: the script, as ast.parse gives it
    python,     \* do_test_script: the reference interpreter running the script
    debug,      \* history: where the compiler put the call sequences and assignments
    shadow      \* history: the calls of script functions the VM is in

vmVars == <<commands, registers, mem, pointer>>
conVars == <<input, output, error>>
pipeVars == <<code, parsed_val, named_val, resolved_val, passes>>
wormVars == <<source, python, debug>>
vars == <<commands, registers, mem, pointer, input, output, error, ctl, exc,
          code, parsed_val, named_val, resolved_val, passes, source, python, debug, shadow>>

(***************************************************************************)
(* Python int arithmetic on the limb representation.                       *)
(***************************************************************************)
Base == 2^16

Z(n) ==
    LET q1 == n \div Base
        q2 == q1 \div Base
    IN  <<n % Base, q1 % Base, q2 % Base, q2 \div Base>>

Zero == Z(0)
One == Z(1)

IntAdd(a, b) ==
    LET s0 == a[1] + b[1]
        s1 == a[2] + b[2] + (s0 \div Base)
        s2 == a[3] + b[3] + (s1 \div Base)
    IN  <<s0 % Base, s1 % Base, s2 % Base, a[4] + b[4] + (s2 \div Base)>>

IntSub(a, b) ==
    LET s0 == a[1] - b[1]
        s1 == a[2] - b[2] + (s0 \div Base)
        s2 == a[3] - b[3] + (s1 \div Base)
    IN  <<s0 % Base, s1 % Base, s2 % Base, a[4] - b[4] + (s2 \div Base)>>

IntNeg(a) == IntSub(Zero, a)
IsNeg(a) == a[4] < 0
\* the decomposition is canonical, so the order is the order of the limbs
IntLt(a, b) ==
    \/ a[4] < b[4]
    \/ a[4] = b[4] /\ a[3] < b[3]
    \/ a[4] = b[4] /\ a[3] = b[3] /\ a[2] < b[2]
    \/ a[4] = b[4] /\ a[3] = b[3] /\ a[2] = b[2] /\ a[1] < b[1]
IntLe(a, b) == ~IntLt(b, a)
IntAbs(a) == IF IsNeg(a) THEN IntNeg(a) ELSE a
\* a * m for a small factor 0 <= m <= 256
MulSmall(a, m) ==
    LET p0 == a[1] * m
        p1 == a[2] * m + (p0 \div Base)
        p2 == a[3] * m + (p1 \div Base)
    IN  <<p0 % Base, p1 % Base, p2 % Base, a[4] * m + (p2 \div Base)>>

\* a * m for one limb 0 <= m < 2^16
MulLimb(a, m) == IntAdd(MulSmall(a, m % 256), MulSmall(MulSmall(a, m \div 256), 256))

\* a * 2^16
ShiftLimb(a) == <<0, a[1], a[2], a[4] * Base + a[3]>>

\* a * b for b >= 0, limb by limb
MulNat(a, b) ==
    IntAdd(MulLimb(a, b[1]),
        ShiftLimb(IntAdd(MulLimb(a, b[2]),
            ShiftLimb(IntAdd(MulLimb(a, b[3]),
                ShiftLimb(MulLimb(a, b[4])))))))

IntMul(a, b) == IF IsNeg(b) THEN IntNeg(MulNat(a, IntNeg(b))) ELSE MulNat(a, b)

\* the k-th hexadecimal digit of a >= 0
Nibble(a, k) ==
    IF k < 12 THEN (a[(k \div 4) + 1] \div (16 ^ (k % 4))) % 16
    ELSE (a[4] \div (16 ^ (k - 12))) % 16

\* long division, one hexadecimal digit of a at a time: from hi, the
\* <<quotient, remainder>> of floor(a / 16^(k+1)) by b, that of floor(a / 16^k)
DivModStep(hi, a, b, k) ==
    IF hi[1] = Zero /\ hi[2] = Zero /\ Nibble(a, k) = 0 THEN hi
    ELSE LET r == IntAdd(MulSmall(hi[2], 16), Z(Nibble(a, k)))
             qd == CHOOSE q \in 0..15 :
                      /\ IntLe(MulSmall(b, q), r)
                      /\ q < 15 => IntLt(r, MulSmall(b, q + 1))
         IN  <<IntAdd(MulSmall(hi[1], 16), Z(qd)), IntSub(r, MulSmall(b, qd))>>

\* the steps for the digits top down to low of a, by halves: the tuple has
\* the upper half computed before the lower
RECURSIVE DivModFrom(_, _, _, _, _)
DivModFrom(hi, a, b, top, low) ==
    IF top = low THEN DivModStep(hi, a, b, top)
    ELSE LET mid == (top + low + 1) \div 2
             upper == DivModFrom(hi, a, b, top, mid)
             lower == DivModFrom(upper, a, b, mid - 1, low)
         IN  <<upper, lower>>[2]

\* <<quotient, remainder>> of a by b for a >= 0, b > 0
DivModNat(a, b) == DivModFrom(<<Zero, Zero>>, a, b, 19, 0)

\* Python's a // b (b # 0): the quotient rounded toward minus infinity
IntFloorDiv(a, b) ==
    LET qr == DivModNat(IntAbs(a), IntAbs(b))
    IN  IF IsNeg(a) = IsNeg(b) THEN qr[1]
        ELSE IF qr[2] = Zero THEN IntNeg(qr[1])
        ELSE IntSub(IntNeg(qr[1]), One)

\* Python's a % b (b # 0): a - b * (a // b), which has the sign of b
IntMod(a, b) == IntSub(a, IntMul(b, IntFloorDiv(a, b)))

\* the TLC integer equal to a, for -2^15 <= a < 2^15
ToSmall(a) == IF IsNeg(a) THEN a[1] - Base ELSE a[1]
IsSmall(a) == IntLe(Z(-32768), a) /\ IntLt(a, Z(32768))

(***************************************************************************)
(* str(int) and int(str)                                                   *)
(***************************************************************************)
DigitChars == <<"0", "1", "2", "3", "4", "5", "6", "7", "8", "9">>
IsDigit(c) == \E i \in 1..10 : DigitChars[i] = c
DigitVal(c) == (CHOOSE i \in 1..10 : DigitChars[i] = c) - 1
IsSpace(c) == c \in {" ", "\t"}

\* <<quotient, remainder>> of a >= 0 by 10000, limb by limb from the top
DivMod10000(a) ==
    LET n3 == a[4]
        n2 == (n3 % 10000) * Base + a[3]
        n1 == (n2 % 10000) * Base + a[2]
        n0 == (n1 % 10000) * Base + a[1]
    IN  <<<<n0 \div 10000, n1 \div 10000, n2 \div 10000, n3 \div 10000>>, n0 % 10000>>

\* the decimal digits of 0 <= n < 10000, all four of them if pad
Digits4(n, pad) ==
    LET ds == <<DigitChars[(n \div 1000) + 1], DigitChars[((n \div 100) % 10) + 1],
                DigitChars[((n \div 10) % 10) + 1], DigitChars[(n % 10) + 1]>>
        first == IF pad \/ n >= 1000 THEN 1 ELSE IF n >= 100 THEN 2
                 ELSE IF n >= 10 THEN 3 ELSE 4
    IN  SubSeq(ds, first, 4)

\* str(n) for n >= 0, four digits at a time
RECURSIVE NatStr(_)
NatStr(n) ==
    LET qr == DivMod10000(n)
    IN  IF qr[1] = Zero THEN Digits4(qr[2], FALSE)
        ELSE NatStr(qr[1]) \o Digits4(qr[2], TRUE)

\* str(i) for a Python int
IntStr(i) == IF IsNeg(i) THEN <<"-">> \o NatStr(IntNeg(i)) ELSE NatStr(i)

RECURSIVE LStrip(_)
LStrip(s) == IF s # <<>> /\ IsSpace(Head(s)) THEN LStrip(Tail(s)) ELSE s
RECURSIVE RStrip(_)
RStrip(s) ==
    IF s # <<>> /\ IsSpace(s[Len(s)]) THEN RStrip(SubSeq(s, 1, Len(s) - 1)) ELSE s
Strip(s) == RStrip(LStrip(s))

\* digits, single underscores allowed between two digits
IsDigitRun(s) ==
    /\ s # <<>>
    /\ \A i \in 1..Len(s) :
          \/ IsDigit(s[i])
          \/ s[i] = "_" /\ 1 < i /\ i < Len(s) /\ IsDigit(s[i - 1]) /\ IsDigit(s[i + 1])

\* the value of a run of digits and underscores, four characters at a time
RECURSIVE DigitsVal(_)
DigitsVal(s) ==
    IF s = <<>> THEN Zero
    ELSE LET k == IF Len(s) < 4 THEN Len(s) ELSE 4
             last == SelectSeq(SubSeq(s, Len(s) - k + 1, Len(s)), IsDigit)
             n == Len(last)
             low == (IF n >= 1 THEN DigitVal(last[n]) ELSE 0)
                    + (IF n >= 2 THEN 10 * DigitVal(last[n - 1]) ELSE 0)
                    + (IF n >= 3 THEN 100 * DigitVal(last[n - 2]) ELSE 0)
                    + (IF n >= 4 THEN 1000 * DigitVal(last[n - 3]) ELSE 0)
         IN  IntAdd(MulSmall(DigitsVal(SubSeq(s, 1, Len(s) - k)), 10 ^ n), Z(low))

Unsigned(s) == IF s # <<>> /\ Head(s) \in {"+", "-"} THEN Tail(s) ELSE s

\* int(s) succeeds
IsIntStr(s) == IsDigitRun(Unsigned(Strip(s)))

\* int(s)
StrInt(s) ==
    LET t == Strip(s)
        v == DigitsVal(Unsigned(t))
    IN  IF Head(t) = "-" THEN IntNeg(v) ELSE v

\* int(b) for a Python bool
BoolInt(b) == IF b THEN One ELSE Zero

\* str(i) for a small int
Str(i) == IntStr(Z(i))

(***************************************************************************)
(* SLIM source text: the character classes of the parser's regular         *)
(* expressions (worm/slim/parser.py) and str helpers.                      *)
(***************************************************************************)
LowerChars ==
    {"a", "b", "c", "d", "e", "f", "g", "h", "i", "j", "k", "l", "m",
     "n", "o", "p", "q", "r", "s", "t", "u", "v", "w", "x", "y", "z"}

\* ARG_SPLIT consumes whitespace and commas only
IsGap(c) == IsSpace(c) \/ c = ","
\* NAME = [\D][^\s,]*
IsNameHead(c) == ~IsDigit(c)
\* COMMAND = [a-z-]+
IsCommandChar(c) == c \in LowerChars \/ c = "-"

\* the character classes the scans below look for
InClass(c, class) ==
    IF class = "gap" THEN IsGap(c)
    ELSE IF class = "non-gap" THEN ~IsGap(c)
    ELSE IF class = "non-space" THEN ~IsSpace(c)
    ELSE IF class = "non-digit" THEN ~IsDigit(c)
    ELSE c = class

\* the least position p >= i of s whose character is in the class,
\* Len(s) + 1 if there is none
FirstAt(s, i, class) ==
    CHOOSE p \in i..(Len(s) + 1) :
        /\ p = Len(s) + 1 \/ InClass(s[p], class)
        /\ \A k \in i..(p - 1) : ~InClass(s[k], class)

\* line.split(";", maxsplit=1)[0].strip()
clean_line(line) == Strip(SubSeq(line, 1, FirstAt(line, 1, ";") - 1))

\* s[p..e] matches ARG_SPLIT = (?:\s*,\s*|\s+)
IsArgSplit(s, p, e) ==
    /\ p <= e
    /\ \A k \in p..e : IsGap(s[k])
    /\ Cardinality({k \in p..e : s[k] = ","}) <= 1

\* MatchSeparated: s[i..] matches separated(NAME, ARG_SPLIT), or
\* separated(ARG, ARG_SPLIT) when numbers are allowed (ARG = NAME | NUMBER).
\* A NAME or NUMBER must run to the next gap character, since only ARG_SPLIT
\* or the end of the line may follow it.
\* MatchRest: s[p..] is empty or matches (ARG_SPLIT item)+
RECURSIVE MatchSeparated(_, _, _), MatchRest(_, _, _)
MatchSeparated(s, i, numbers) ==
    /\ i <= Len(s)
    /\ \/ IsNameHead(s[i]) /\ MatchRest(s, FirstAt(s, i + 1, "gap"), numbers)
       \/ /\ numbers
          /\ IsDigit(s[i])
          /\ LET n == FirstAt(s, i, "non-digit")
             IN  (n > Len(s) \/ IsGap(s[n])) /\ MatchRest(s, n, numbers)

MatchRest(s, p, numbers) ==
    \/ p > Len(s)
    \/ \E e \in p..(FirstAt(s, p, "non-gap") - 1) :
          IsArgSplit(s, p, e) /\ MatchSeparated(s, e + 1, numbers)

\* re.split(ARG_SPLIT, s), the pieces from position i on: at a gap character
\* the first alternative \s*,\s* is tried before \s+
RECURSIVE SplitFrom(_, _)
SplitFrom(s, i) ==
    LET p == FirstAt(s, i, "gap")
        piece == SubSeq(s, i, p - 1)
    IN  IF p > Len(s) THEN <<piece>>
        ELSE LET k == FirstAt(s, p, "non-space")
                 e == IF k <= Len(s) /\ s[k] = ","
                      THEN FirstAt(s, k + 1, "non-space")
                      ELSE k
             IN  <<piece>> \o SplitFrom(s, e)

Split(s) == SplitFrom(s, 1)

(***************************************************************************)
(* Validation and Option values (worm/util)                                *)
(***************************************************************************)
Success(v) == [tag |-> "Success", value |-> v]
Failure(errors) == [tag |-> "Failure", value |-> errors]
\* a pass that raised instead of returning
Raised(e) == [tag |-> "Raised", value |-> e]
\* a validation that has not been computed yet
Unset == [tag |-> "Unset", value |-> <<>>]

Some(v) == [tag |-> "Some", value |-> v]
Nothing == [tag |-> "Nothing", value |-> <<>>]

IsSome(x) == x.tag = "Some"
flatten(xs) ==
    LET somes == SelectSeq(xs, IsSome)
    IN  [i \in 1..Len(somes) |-> somes[i].value]

IsSuccess(val) == val.tag = "Success"
IsFailure(val) == val.tag = "Failure"

\* the concatenation of a sequence of sequences, by halves
RECURSIVE Concat(_, _, _)
Concat(ss, lo, hi) ==
    IF lo > hi THEN <<>>
    ELSE IF lo = hi THEN ss[lo]
    ELSE LET mid == (lo + hi) \div 2
         IN  Concat(ss, lo, mid) \o Concat(ss, mid + 1, hi)

sequence_mut(vals) ==
    LET successes == SelectSeq(vals, IsSuccess)
        failures == SelectSeq(vals, IsFailure)
    IN  IF failures # <<>>
        THEN Failure(failures[1].value)
        ELSE Success([i \in 1..Len(successes) |-> successes[i].value])

sequence(vals) ==
    LET successes == SelectSeq(vals, IsSuccess)
        failures == SelectSeq(vals, IsFailure)
    IN  IF failures # <<>>
        THEN Failure(Concat([i \in 1..Len(failures) |-> failures[i].value], 1, Len(failures)))
        ELSE Success([i \in 1..Len(successes) |-> successes[i].value])

(***************************************************************************)
(* parse (worm/slim/parser.py)                                             *)
(***************************************************************************)
ParsedCommand(cmd, args, line) ==
    [type |-> "ParsedCommand", cmd |-> cmd, args |-> args, line |-> line]
ParsedLabel(name, line) == [type |-> "ParsedLabel", name |-> name, line |-> line]
ParsedAlloc(names, line) == [type |-> "ParsedAlloc", names |-> names, line |-> line]

AllocateRegisters == <<"a", "l", "l", "o", "c", "a", "t", "e", "-", "r", "e", "g", "i", "s", "t", "e", "r", "s">>

\* re.fullmatch(capture(NAME) + ":", line)
IsLabelLine(line) ==
    /\ Len(line) >= 2
    /\ line[Len(line)] = ":"
    /\ IsNameHead(line[1])
    /\ \A k \in 2..(Len(line) - 1) : ~IsGap(line[k])

\* re.fullmatch(r"allocate-registers\s+" + capture(separated(NAME, ARG_SPLIT)), line):
\* where the captured group starts, 0 if the line does not match.  \s+ is
\* greedy, so it gives up whitespace to the first NAME only when it must.
AllocGroup(line) ==
    LET w == Len(AllocateRegisters)
    IN  IF Len(line) > w /\ SubSeq(line, 1, w) = AllocateRegisters /\ IsSpace(line[w + 1])
        THEN LET starts == {g \in (w + 2)..FirstAt(line, w + 1, "non-space") :
                               MatchSeparated(line, g, FALSE)}
             IN  IF starts = {} THEN 0
                 ELSE CHOOSE g \in starts : \A h \in starts : h <= g
        ELSE 0

\* re.fullmatch(capture(COMMAND) + capture(ARG_SPLIT + separated(ARG, ARG_SPLIT)) + "?", line):
\* where the optional second group starts (Len(line) + 1 if it is absent),
\* 0 if the line does not match
CommandArgs(line) ==
    LET w == FirstAt(line, 1, "gap")
    IN  IF /\ w >= 2
           /\ \A k \in 1..(w - 1) : IsCommandChar(line[k])
           /\ MatchRest(line, w, TRUE)
        THEN w
        ELSE 0

NonEmpty(s) == s # <<>>
StripAll(pieces) == [i \in 1..Len(pieces) |-> Strip(pieces[i])]

parse_visit_mut(line, line_num) ==
    IF line = <<>> THEN Nothing
    ELSE IF IsLabelLine(line)
    THEN Some(ParsedLabel(SubSeq(line, 1, Len(line) - 1), line_num))
    ELSE IF AllocGroup(line) > 0
    THEN Some(ParsedAlloc(StripAll(Split(SubSeq(line, AllocGroup(line), Len(line)))), line_num))
    ELSE IF CommandArgs(line) > 0
    THEN LET w == CommandArgs(line)
             cmd == SubSeq(line, 1, w - 1)
             args == IF w > Len(line) THEN <<>>
                     ELSE Tail(StripAll(Split(SubSeq(line, w, Len(line)))))
         IN  Some(ParsedCommand(cmd, args, line_num))
    ELSE Raised("Exception")

parse_visit(line, line_num) ==
    IF line = <<>> THEN Nothing
    ELSE IF IsLabelLine(line)
    THEN Some(ParsedLabel(SubSeq(line, 1, Len(line) - 1), line_num))
    ELSE IF AllocGroup(line) > 0
    THEN Some(ParsedAlloc(StripAll(Split(SubSeq(line, AllocGroup(line), Len(line)))), line_num))
    ELSE IF CommandArgs(line) > 0
    THEN LET w == CommandArgs(line)
             cmd == SubSeq(line, 1, w - 1)
             args == IF w > Len(line) THEN <<>>
                     ELSE SelectSeq(StripAll(Split(SubSeq(line, w, Len(line)))), NonEmpty)
         IN  Some(ParsedCommand(cmd, args, line_num))
    ELSE Raised("Exception")

IsRaised(x) == x.tag = "Raised"

parse_mut(text) ==
    LET parsed_lines == [i \in 1..Len(text) |-> parse_visit(clean_line(text[i]), i - 1)]
    IN  IF \E i \in 1..Len(text) : IsRaised(parsed_lines[i])
        THEN Raised("Exception")
        ELSE Success(flatten(parsed_lines))

\* the list comprehension visits the lines in order, so the first line that
\* matches no rule raises out of parse
parse(text) ==
    LET parsed_lines == [i \in 1..Len(text) |-> parse_visit(clean_line(text[i]), i)]
    IN  IF \E i \in 1..Len(text) : IsRaised(parsed_lines[i])
        THEN Raised("Exception")
        ELSE Success(flatten(parsed_lines))

(***************************************************************************)
(* do_name (worm/slim/namer.py)                                            *)
(***************************************************************************)
NUM_REGISTERS == 32

NamedCommand(cmd, args, line) == [cmd |-> cmd, args |-> args, line |-> line]
NamedProgram(lines, regs, labels) == [lines |-> lines, registers |-> regs, labels |-> labels]

NoMoreRegistersError(name, line) == [type |-> "NoMoreRegistersError", name |-> name, line |-> line]
RegisterInUseError(name, line) == [type |-> "RegisterInUseError", name |-> name, line |-> line]
LabelInUseError(name, line) == [type |-> "LabelInUseError", name |-> name, line |-> line]

\* a Python dict is a function; d[k] = v adds or overwrites the key
EmptyDict == [k \in {} |-> 0]
DictSet(d, k, v) == (k :> v) @@ d
Elems(s) == {s[i] : i \in 1..Len(s)}

\* the variables of do_name: the two dicts its visit closes over and the
\* locals of its loop
NamerInit_mut ==
    [registers |-> EmptyDict, labels |-> EmptyDict, errors |-> <<>>,
     named_lines |-> <<>>, label_list |-> <<>>, line_num |-> 1]

NamerInit ==
    [registers |-> EmptyDict, labels |-> EmptyDict, errors |-> <<>>,
     named_lines |-> <<>>, label_list |-> <<>>, line_num |-> 0]

alloc_name_mut(ns, name, line) ==
    IF name \in DOMAIN ns.registers \/ name \in DOMAIN ns.labels
    THEN [ns EXCEPT !.errors = Append(@, RegisterInUseError(name, line))]
    ELSE IF Cardinality(DOMAIN ns.registers) > NUM_REGISTERS
    THEN [ns EXCEPT !.errors = Append(@, NoMoreRegistersError(name, line))]
    ELSE [ns EXCEPT !.registers = DictSet(@, name, Cardinality(DOMAIN ns.registers))]

\* one iteration of `for name in line.names`
alloc_name(ns, name, line) ==
    IF name \in DOMAIN ns.registers \/ name \in DOMAIN ns.labels
    THEN [ns EXCEPT !.errors = Append(@, RegisterInUseError(name, line))]
    ELSE IF Cardinality(DOMAIN ns.registers) >= NUM_REGISTERS
    THEN [ns EXCEPT !.errors = Append(@, NoMoreRegistersError(name, line))]
    ELSE [ns EXCEPT !.registers = DictSet(@, name, Cardinality(DOMAIN ns.registers))]

\* the loop over line.names[lo..hi], by halves: the tuple has the first half
\* computed before the second
RECURSIVE alloc_names(_, _, _, _, _)
alloc_names(ns, names, line, lo, hi) ==
    IF lo > hi THEN ns
    ELSE IF lo = hi THEN alloc_name(ns, names[lo], line)
    ELSE LET mid == (lo + hi) \div 2
             left == alloc_names(ns, names, line, lo, mid)
             right == alloc_names(left, names, line, mid + 1, hi)
         IN  <<left, right>>[2]

name_visit_mut(ns, line) ==
    IF line.type = "ParsedAlloc"
    THEN alloc_names(ns, line.names, line.line, 1, Len(line.names))
    ELSE IF line.type = "ParsedCommand"
    THEN [ns EXCEPT
            !.labels = [x \in Elems(ns.label_list) |-> ns.line_num] @@ ns.labels,
            !.named_lines = <<NamedCommand(line.cmd, line.args, line.line)>> \o @,
            !.line_num = @ + 1,
            !.label_list = <<>>]
    ELSE IF line.name \in DOMAIN ns.registers \/ line.name \in DOMAIN ns.labels
    THEN [ns EXCEPT !.errors = Append(@, LabelInUseError(line.name, line.line))]
    ELSE [ns EXCEPT !.label_list = Append(@, line.name)]

\* one iteration of `for line in code`: visit and the handling of its result
name_visit(ns, line) ==
    IF line.type = "ParsedAlloc"
    THEN alloc_names(ns, line.names, line.line, 1, Len(line.names))
    ELSE IF line.type = "ParsedCommand"
    THEN [ns EXCEPT
            !.labels = [x \in Elems(ns.label_list) |-> ns.line_num] @@ ns.labels,
            !.named_lines = Append(@, NamedCommand(line.cmd, line.args, line.line)),
            !.line_num = @ + 1,
            !.label_list = <<>>]
    ELSE IF line.name \in DOMAIN ns.registers \/ line.name \in DOMAIN ns.labels
    THEN [ns EXCEPT !.errors = Append(@, LabelInUseError(line.name, line.line))]
    ELSE [ns EXCEPT !.label_list = Append(@, line.name)]

\* the loop over the parsed lines lo..hi, by halves
RECURSIVE name_lines(_, _, _, _)
name_lines(ns, parsed, lo, hi) ==
    IF lo > hi THEN ns
    ELSE IF lo = hi THEN name_visit(ns, parsed[lo])
    ELSE LET mid == (lo + hi) \div 2
             left == name_lines(ns, parsed, lo, mid)
             right == name_lines(left, parsed, mid + 1, hi)
         IN  <<left, right>>[2]

do_name(parsed) ==
    LET ns == name_lines(NamerInit, parsed, 1, Len(parsed))
    IN  IF ns.errors # <<>>
        THEN Failure(ns.errors)
        ELSE Success(NamedProgram(ns.named_lines, ns.registers, ns.labels))

(***************************************************************************)
(* resolve (worm/slim/resolver.py)                                         *)
(***************************************************************************)
Value_Register == 1
Value_Label == 2

Op(name, text, roles) == [name |-> name, text |-> text, roles |-> roles]
RRR == <<Value_Register, Value_Register, Value_Register>>
RR == <<Value_Register, Value_Register>>

\* the opcode table: the key as it is spelled in the source text, the name
\* of the SLIM method it dispatches to, and the expected argument roles
COMMANDS ==
    {Op("add", <<"a", "d", "d">>, RRR), Op("sub", <<"s", "u", "b">>, RRR), Op("mul", <<"m", "u", "l">>, RRR),
     Op("div", <<"d", "i", "v">>, RRR), Op("quo", <<"q", "u", "o">>, RRR), Op("rem", <<"r", "e", "m">>, RRR),
     Op("seq", <<"s", "e", "q">>, RRR), Op("sne", <<"s", "n", "e">>, RRR), Op("slt", <<"s", "l", "t">>, RRR),
     Op("sgt", <<"s", "g", "t">>, RRR), Op("sle", <<"s", "l", "e">>, RRR), Op("sge", <<"s", "g", "e">>, RRR),
     Op("ld", <<"l", "d">>, RR), Op("st", <<"s", "t">>, RR),
     Op("li", <<"l", "i">>, <<Value_Register, Value_Label>>),
     Op("read", <<"r", "e", "a", "d">>, <<Value_Register>>),
     Op("write", <<"w", "r", "i", "t", "e">>, <<Value_Register>>),
     Op("j", <<"j">>, <<Value_Register>>),
     Op("jeqz", <<"j", "e", "q", "z">>, RR),
     Op("halt", <<"h", "a", "l", "t">>, <<>>)}

InCommands(cmd) == \E c \in COMMANDS : c.text = cmd
Command(cmd) == CHOOSE c \in COMMANDS : c.text = cmd

ResolvedCommand(cmd, args) == [cmd |-> cmd, args |-> args]

UnknownOpcodeError(name, line) == [type |-> "UnknownOpcodeError", name |-> name, line |-> line]
MissingArgumentError(line) == [type |-> "MissingArgumentError", line |-> line]
TooManyArgumentsError(line) == [type |-> "TooManyArgumentsError", line |-> line]
UnknownNameError(name, line) == [type |-> "UnknownNameError", name |-> name, line |-> line]
ExpectedRegisterError(name, line) == [type |-> "ExpectedRegisterError", name |-> name, line |-> line]
ExpectedLabelError(name, line) == [type |-> "ExpectedLabelError", name |-> name, line |-> line]

\* re.fullmatch(r"-?\d+", arg)
IsLiteral(arg) ==
    LET digits == IF arg # <<>> /\ Head(arg) = "-" THEN Tail(arg) ELSE arg
    IN  digits # <<>> /\ \A k \in 1..Len(digits) : IsDigit(digits[k])

visit_arg(program, arg, expected, line) ==
    IF IsLiteral(arg) THEN Success(StrInt(arg))
    ELSE IF arg \in DOMAIN program.registers
    THEN IF expected = Value_Register
         THEN Success(Z(program.registers[arg]))
         ELSE Failure(<<ExpectedLabelError(arg, line)>>)
    ELSE IF arg \in DOMAIN program.labels
    THEN IF expected = Value_Label
         THEN Success(Z(program.labels[arg]))
         ELSE Failure(<<ExpectedRegisterError(arg, line)>>)
    ELSE Failure(<<UnknownNameError(arg, line)>>)

resolve_visit_mut(program, line) ==
    LET results == [i \in 1..Len(line.args) |->
                       visit_arg(program, line.args[i], Value_Register, line.line)]
    IN  IF ~InCommands(line.cmd)
        THEN Failure(<<UnknownOpcodeError(line.cmd, line.line)>>)
        ELSE IF Len(line.args) < Len(Command(line.cmd).roles)
        THEN Failure(<<MissingArgumentError(line.line)>>
                     \o (IF \E i \in 1..Len(results) : IsFailure(results[i])
                         THEN sequence(results).value ELSE <<>>))
        ELSE IF Len(line.args) > Len(Command(line.cmd).roles)
        THEN Failure(<<TooManyArgumentsError(line.line)>>)
        ELSE LET roles == [i \in 1..Len(line.args) |->
                              visit_arg(program, line.args[i], Command(line.cmd).roles[i], line.line)]
             IN  IF \E i \in 1..Len(roles) : IsFailure(roles[i])
                 THEN sequence(roles)
                 ELSE Success(ResolvedCommand(Command(line.cmd).name, sequence(roles).value))

resolve_visit(program, line) ==
    IF ~InCommands(line.cmd)
    THEN Failure(<<UnknownOpcodeError(line.cmd, line.line)>>)
    ELSE IF Len(line.args) < Len(Command(line.cmd).roles)
    THEN Failure(<<MissingArgumentError(line.line)>>)
    ELSE IF Len(line.args) > Len(Command(line.cmd).roles)
    THEN Failure(<<TooManyArgumentsError(line.line)>>)
    ELSE LET results == [i \in 1..Len(line.args) |->
                            visit_arg(program, line.args[i], Command(line.cmd).roles[i], line.line)]
         IN  IF \E i \in 1..Len(results) : IsFailure(results[i])
             THEN sequence(results)
             ELSE Success(ResolvedCommand(Command(line.cmd).name, sequence(results).value))

resolve(program) ==
    sequence([i \in 1..Len(program.lines) |-> resolve_visit(program, program.lines[i])])

(***************************************************************************)
(* The lowering engine (worm/compiler/compiler.py).                        *)
(*                                                                         *)
(* Compiler.compile hands the source to ast.parse; a source program is     *)
(* represented here by the tree ast.parse builds for it.  A node is a      *)
(* record whose field `node` names its class; the other fields are the     *)
(* attributes of that class the Visitor reads.  Identifiers are text, ints *)
(* are Python ints (True and False are the ints 1 and 0), operators are    *)
(* the names of their ast classes.                                         *)
(***************************************************************************)
Module(body) == [node |-> "Module", body |-> body]
Expr(value) == [node |-> "Expr", value |-> value]
Assign(targets, value) == [node |-> "Assign", targets |-> targets, value |-> value]
AugAssign(target, op, value) ==
    [node |-> "AugAssign", target |-> target, op |-> op, value |-> value]
If(test, body, orelse) == [node |-> "If", test |-> test, body |-> body, orelse |-> orelse]
While(test, body) == [node |-> "While", test |-> test, body |-> body]
Break == [node |-> "Break"]
Continue == [node |-> "Continue"]
\* args lists node.args.args[i].arg, the names of the parameters
FunctionDef(name, args, body) ==
    [node |-> "FunctionDef", name |-> name, args |-> args, body |-> body]
Return(value) == [node |-> "Return", value |-> value]
Constant(value) == [node |-> "Constant", value |-> value]
Name(id) == [node |-> "Name", id |-> id]
BinOp(left, op, right) == [node |-> "BinOp", left |-> left, op |-> op, right |-> right]
UnaryOp(op, operand) == [node |-> "UnaryOp", op |-> op, operand |-> operand]
Compare(left, ops, comparators) ==
    [node |-> "Compare", left |-> left, ops |-> ops, comparators |-> comparators]
BoolOp(op, values) == [node |-> "BoolOp", op |-> op, values |-> values]
Call(func, args) == [node |-> "Call", func |-> func, args |-> args]
NamedExpr(target, value) == [node |-> "NamedExpr", target |-> target, value |-> value]

RESULT == <<"r", "e", "s", "u", "l", "t">>
JUMP_LABEL == <<"j", "u", "m", "p", "-", "l", "a", "b", "e", "l">>
ZERO == <<"z", "e", "r", "o">>
ONE == <<"o", "n", "e">>
STACK_POINTER == <<"s", "t", "a", "c", "k", "-", "p", "o", "i", "n", "t", "e", "r">>
MAIN_SCOPE == <<>>

\* s[-1]
Last(s) == s[Len(s)]

\* A method that changes the visitor in n steps names the visitor after each
\* step, v1 to vn, and yields <<v1, ..., vn>>[n], which is vn: listing the
\* steps has them computed first to last

\* history of a compilation that emitted nothing
NoDebug ==
    [sites |-> <<>>, binds |-> {}, namespaces |-> EmptyDict,
     whiles |-> {}, jumps |-> {}, depths |-> {}, boolops |-> {}, registers |-> {},
     returns |-> {}, operands |-> {}, balance |-> {}, lookups |-> <<>>, defs |-> {},
     bodies |-> {}]

\* Namespace.__init__
Namespace == [names |-> EmptyDict, local_count |-> 0]

\* Visitor.__init__.  exit tells how the traversal ended early ("none" when it
\* did not); sites and binds are history: the call sequences and the
\* assignments emitted so far, located by the index the commands get in the
\* assembled program
VisitorInit ==
    [namespaces |-> DictSet(EmptyDict, MAIN_SCOPE, Namespace),
     scope |-> MAIN_SCOPE,
     registers |-> {RESULT, ZERO, ONE, JUMP_LABEL, STACK_POINTER},
     arg_count |-> 0,
     lines |-> <<>>,
     break_labels |-> <<>>,
     continue_labels |-> <<>>,
     label_counts |-> EmptyDict,
     exit |-> "none",
     sites |-> <<>>,
     binds |-> {},
     loops |-> 0,
     whiles |-> {},
     jumps |-> {},
     depths |-> {},
     boolops |-> {},
     returns |-> {}, operands |-> {}, balance |-> {}, lookups |-> <<>>, defs |-> {},
     bodies |-> {}, within |-> MAIN_SCOPE]

\* panic is exit(1), and an uncaught exception ends compile as well: the
\* first of them decides, whatever is computed after it is discarded
leave(v, how) == IF v.exit = "none" THEN [v EXCEPT !.exit = how] ELSE v
panic(v) == leave(v, "panic")

\* the names f"arg-{n}" and f"local-{n}"
arg_name(n) == <<"a", "r", "g", "-">> \o Str(n)
local_name(n) == <<"l", "o", "c", "a", "l", "-">> \o Str(n)

arg(v, n) == [v EXCEPT !.registers = @ \cup {arg_name(n)}]
local(v, n) == [v EXCEPT !.registers = @ \cup {local_name(n)}]

add_arg(v) == [arg(v, v.arg_count) EXCEPT !.arg_count = @ + 1]
rem_arg(v) == [v EXCEPT !.arg_count = @ - 1]

\* Counter: a missing key counts 0
Count(v, name) == IF name \in DOMAIN v.label_counts THEN v.label_counts[name] ELSE 0
add_label(v, name) == [v EXCEPT !.label_counts = DictSet(@, name, Count(v, name) + 1)]
\* the name add_label returns when called on v
label_name(v, name) == name \o <<"-">> \o Str(Count(v, name) + 1)

get_func_label(name) == <<"d", "e", "f", "-">> \o name

get_local_namespace(v) ==
    IF v.scope \in DOMAIN v.namespaces THEN v.namespaces[v.scope] ELSE Namespace

\* history: lookups lists, in the order of the traversal, the variables
\* bound or read with the register each was given; within is the function
\* whose definition is being visited
note_lookup(v, name, slot) ==
    [v EXCEPT !.lookups = Append(@, [scope |-> v.within, name |-> name, slot |-> slot])]

\* Visitor.get_or_create_name with Namespace.get_or_create_name and add_local
get_or_create_name(v, name) ==
    LET namespace == get_local_namespace(v)
        id == local_name(namespace.local_count)
    IN  IF name \in DOMAIN namespace.names
        THEN note_lookup([v EXCEPT !.namespaces = DictSet(@, v.scope, namespace)],
                         name, namespace.names[name])
        ELSE note_lookup([local(v, namespace.local_count) EXCEPT
                            !.namespaces = DictSet(@, v.scope,
                                [names |-> DictSet(namespace.names, name, id),
                                 local_count |-> namespace.local_count + 1])],
                         name, id)

enter_scope(v, name) == [v EXCEPT !.scope = name]
exit_scope(v) == [v EXCEPT !.scope = MAIN_SCOPE]

\* ", ".join(args)
RECURSIVE Join(_)
Join(args) ==
    IF args = <<>> THEN <<>>
    ELSE IF Len(args) = 1 THEN args[1]
    ELSE args[1] \o <<",", " ">> \o Join(Tail(args))

\* do: args holds str(arg) for each argument.  The methods add .. j are do
\* under the name of their instruction
do(v, cmd, args) == [v EXCEPT !.lines = Append(@, cmd \o <<" ">> \o Join(args))]
label(v, name) == [v EXCEPT !.lines = Append(@, name \o <<":">>)]

\* li asserts that its register is allocated
li_to(v, register, value) ==
    IF register \in v.registers THEN do(v, <<"l", "i">>, <<register, value>>)
    ELSE leave(v, "AssertionError")

jeqz_to(v, src, name) ==
    LET v1 == li_to(v, JUMP_LABEL, name)
        v2 == do(v1, <<"j", "e", "q", "z">>, <<src, JUMP_LABEL>>)
    IN  <<v1, v2>>[2]

j_to(v, name) ==
    LET v1 == li_to(v, JUMP_LABEL, name)
        v2 == do(v1, <<"j">>, <<JUMP_LABEL>>)
    IN  <<v1, v2>>[2]

cp(v, dest, src) == do(v, <<"a", "d", "d">>, <<dest, ZERO, src>>)

push(v, src) ==
    LET v1 == do(v, <<"s", "t">>, <<src, STACK_POINTER>>)
        v2 == do(v1, <<"a", "d", "d">>, <<STACK_POINTER, STACK_POINTER, ONE>>)
    IN  <<v1, v2>>[2]

pop_mut(v, dest) ==
    LET v1 == do(v, <<"l", "d">>, <<dest, STACK_POINTER>>)
        v2 == do(v1, <<"s", "u", "b">>, <<STACK_POINTER, STACK_POINTER, ONE>>)
    IN  <<v1, v2>>[2]

\* the cell is loaded into result and copied to dest
pop_through_result(v, dest) ==
    LET v1 == do(v, <<"s", "u", "b">>, <<STACK_POINTER, STACK_POINTER, ONE>>)
        v2 == do(v1, <<"l", "d">>, <<RESULT, STACK_POINTER>>)
        v3 == cp(v2, dest, RESULT)
    IN  <<v1, v2, v3>>[3]

pop(v, dest) ==
    LET v1 == do(v, <<"s", "u", "b">>, <<STACK_POINTER, STACK_POINTER, ONE>>)
        v2 == do(v1, <<"l", "d">>, <<dest, STACK_POINTER>>)
    IN  <<v1, v2>>[2]

\* history: the index in the assembled program of the command emitted next
\* (get_code puts three loads first; a label is no command)
here(v) == 3 + Cardinality({i \in 1..Len(v.lines) : v.lines[i][Len(v.lines[i])] # ":"})

\* history: the command emitted last assigns a variable, whose register is reg
bind(v, reg) == [v EXCEPT !.binds = @ \cup {[at |-> here(v) - 1, reg |-> reg]}]

\* for r in regs: self.push(r), the registers allocated on the way
RECURSIVE push_all(_, _, _, _)
push_all(v, regs, lo, hi) ==
    IF lo > hi THEN v
    ELSE IF lo = hi THEN push([v EXCEPT !.registers = @ \cup {regs[lo]}], regs[lo])
    ELSE LET mid == (lo + hi) \div 2
             left == push_all(v, regs, lo, mid)
             right == push_all(left, regs, mid + 1, hi)
         IN  <<left, right>>[2]

\* for r in reversed(regs): self.pop(r)
RECURSIVE pop_all(_, _, _, _)
pop_all(v, regs, lo, hi) ==
    IF lo > hi THEN v
    ELSE IF lo = hi THEN pop([v EXCEPT !.registers = @ \cup {regs[lo]}], regs[lo])
    ELSE LET mid == (lo + hi) \div 2
             right == pop_all(v, regs, mid + 1, hi)
             left == pop_all(right, regs, lo, mid)
         IN  <<right, left>>[2]

\* the operand lists [arg(0), ..] and [local(0), ..]
Args(n) == [i \in 1..n |-> arg_name(i - 1)]
Locals(n) == [i \in 1..n |-> local_name(i - 1)]

\* for name in names: self.get_or_create_name(name)
RECURSIVE create_names(_, _, _)
create_names(v, names, i) ==
    IF i > Len(names) THEN v
    ELSE LET v1 == get_or_create_name(v, names[i])
             v2 == create_names(v1, names, i + 1)
         IN  <<v1, v2>>[2]

BinOps ==
    [op \in {"Add", "Sub", "Mult", "FloorDiv", "Mod"} |->
        IF op = "Add" THEN <<"a", "d", "d">>
        ELSE IF op = "Sub" THEN <<"s", "u", "b">>
        ELSE IF op = "Mult" THEN <<"m", "u", "l">>
        ELSE IF op = "FloorDiv" THEN <<"d", "i", "v">>
        ELSE <<"r", "e", "m">>]

CmpOps ==
    [op \in {"Eq", "NotEq", "Lt", "Gt", "LtE", "GtE"} |->
        IF op = "Eq" THEN <<"s", "e", "q">>
        ELSE IF op = "NotEq" THEN <<"s", "n", "e">>
        ELSE IF op = "Lt" THEN <<"s", "l", "t">>
        ELSE IF op = "Gt" THEN <<"s", "g", "t">>
        ELSE IF op = "LtE" THEN <<"s", "l", "e">>
        ELSE <<"s", "g", "e">>]

RECURSIVE visit(_, _), visit_node(_, _), visit_all(_, _, _, _), pass_args(_, _, _, _)
RECURSIVE visit_Assign(_, _), visit_AugAssign(_, _), visit_BinOp(_, _)
RECURSIVE visit_BoolOp(_, _), visit_Compare(_, _), visit_Call(_, _)
RECURSIVE visit_FunctionDef(_, _), visit_NamedExpr(_, _), visit_If(_, _)
RECURSIVE visit_Return(_, _), visit_UnaryOp(_, _), visit_While(_, _)

\* for subnode in nodes: self.visit(subnode), by halves
visit_all(v, nodes, lo, hi) ==
    IF lo > hi THEN v
    ELSE IF lo = hi THEN visit(v, nodes[lo])
    ELSE LET mid == (lo + hi) \div 2
             left == visit_all(v, nodes, lo, mid)
             right == visit_all(left, nodes, mid + 1, hi)
         IN  <<left, right>>[2]

visit_Assign(v, node) ==
    LET v1 == visit(v, node.value)
        name == node.targets[1].id
        v2 == get_or_create_name(v1, name)
        reg == get_local_namespace(v2).names[name]
        v3 == cp(v2, reg, RESULT)
        v4 == bind(v3, reg)
    IN  IF Len(node.targets) > 1 THEN leave(v, "TypeError")
        ELSE <<v1, v2, v3, v4>>[4]

visit_AugAssign(v, node) ==
    LET v1 == visit(v, node.value)
        name == node.target.id
        v2 == get_or_create_name(v1, name)
        reg == get_local_namespace(v2).names[name]
        v3 == IF node.op \in DOMAIN BinOps
              THEN do(v2, BinOps[node.op], <<reg, reg, RESULT>>)
              ELSE panic(v2)
        v4 == bind(v3, reg)
    IN  <<v1, v2, v3, v4>>[4]

\* history: the code of a binary operation or a comparison has been emitted.
\* copy is the index of the command that copies the left operand to reg, op
\* that of the operator command; entry is arg_count when the visit began
note_operand(v, copied, done, reg, entry) ==
    [v EXCEPT !.operands = @ \cup
        {[copy |-> here(copied) - 1, op |-> here(done) - 1, reg |-> reg, entry |-> entry]}]

visit_BinOp(v, node) ==
    LET v1 == visit(v, node.left)
        arg_reg == arg_name(v1.arg_count)
        v2 == add_arg(v1)
        v3 == cp(v2, arg_reg, RESULT)
        v4 == visit(v3, node.right)
        v5 == IF node.op \in DOMAIN BinOps
              THEN do(v4, BinOps[node.op], <<RESULT, arg_reg, RESULT>>)
              ELSE panic(v4)
        v6 == rem_arg(v5)
    IN  <<v1, v2, v3, v4, v5, note_operand(v6, v3, v5, arg_reg, v.arg_count)>>[6]

\* history: the code of a BoolOp has been emitted.  after is the index of
\* the command after its test jeqz; for "Or" the jump over the right operand
\* lies between them.  first is the index of the first command of the right
\* operand, last that of the command after it
note_boolop(v, op, after, first) ==
    [v EXCEPT !.boolops = @ \cup
        {[op |-> op, test |-> after - 1, first |-> first, last |-> here(v)]}]

visit_BoolOp_mut(v, node) ==
    LET v1 == visit(v, node.values[1])
        end_label == label_name(v1, <<"b", "o", "o", "l", "o", "p", "-", "e", "n", "d">>)
        v2 == add_label(v1, <<"b", "o", "o", "l", "o", "p", "-", "e", "n", "d">>)
        next_label == label_name(v2, <<"b", "o", "o", "l", "o", "p", "-", "n", "e", "x", "t">>)
        v3 == add_label(v2, <<"b", "o", "o", "l", "o", "p", "-", "n", "e", "x", "t">>)
        v4 == IF node.op = "And"
              THEN LET a1 == li_to(v3, JUMP_LABEL, end_label)
                       a2 == visit(a1, node.values[2])
                   IN  <<a1, a2, note_boolop(a2, "And", here(a1), here(a1))>>[3]
              ELSE IF node.op = "Or"
              THEN LET o1 == jeqz_to(v3, RESULT, next_label)
                       o2 == j_to(o1, end_label)
                       o3 == label(o2, next_label)
                       o4 == visit(o3, node.values[2])
                   IN  <<o1, o2, o3, o4, note_boolop(o4, "Or", here(o1), here(o3))>>[5]
              ELSE panic(v3)
        v5 == label(v4, end_label)
    IN  IF Len(node.values) # 2 THEN panic(v)
        ELSE <<v1, v2, v3, v4, v5>>[5]

visit_BoolOp(v, node) ==
    LET v1 == visit(v, node.values[1])
        end_label == label_name(v1, <<"b", "o", "o", "l", "o", "p", "-", "e", "n", "d">>)
        v2 == add_label(v1, <<"b", "o", "o", "l", "o", "p", "-", "e", "n", "d">>)
        next_label == label_name(v2, <<"b", "o", "o", "l", "o", "p", "-", "n", "e", "x", "t">>)
        v3 == add_label(v2, <<"b", "o", "o", "l", "o", "p", "-", "n", "e", "x", "t">>)
        v4 == IF node.op = "And"
              THEN LET a1 == jeqz_to(v3, RESULT, end_label)
                       a2 == visit(a1, node.values[2])
                   IN  <<a1, a2, note_boolop(a2, "And", here(a1), here(a1))>>[3]
              ELSE IF node.op = "Or"
              THEN LET o1 == jeqz_to(v3, RESULT, next_label)
                       o2 == j_to(o1, end_label)
                       o3 == label(o2, next_label)
                       o4 == visit(o3, node.values[2])
                   IN  <<o1, o2, o3, o4, note_boolop(o4, "Or", here(o1), here(o3))>>[5]
              ELSE panic(v3)
        v5 == label(v4, end_label)
    IN  IF Len(node.values) # 2 THEN panic(v)
        ELSE <<v1, v2, v3, v4, v5>>[5]

\* history: the command emitted last is the jump of a break or a continue
note_jump(v, kind) == [v EXCEPT !.jumps = @ \cup {[at |-> here(v) - 1, kind |-> kind]}]

visit_Break_mut(v) ==
    IF v.break_labels = <<>> THEN leave(v, "IndexError")
    ELSE note_jump(j_to(v, v.break_labels[1]), "break")

visit_Break(v) ==
    IF v.break_labels = <<>> THEN leave(v, "IndexError")
    ELSE note_jump(j_to(v, Last(v.break_labels)), "break")

visit_Compare(v, node) ==
    LET v1 == visit(v, node.left)
        arg_reg == arg_name(v1.arg_count)
        v2 == add_arg(v1)
        v3 == cp(v2, arg_reg, RESULT)
        v4 == visit(v3, node.comparators[1])
        v5 == IF node.ops[1] \in DOMAIN CmpOps
              THEN do(v4, CmpOps[node.ops[1]], <<RESULT, arg_reg, RESULT>>)
              ELSE panic(v4)
        v6 == rem_arg(v5)
    IN  IF Len(node.ops) # 1 THEN panic(v)
        ELSE <<v1, v2, v3, v4, v5, note_operand(v6, v3, v5, arg_reg, v.arg_count)>>[6]

visit_Constant(v, node) == li_to(v, RESULT, IntStr(node.value))

visit_Continue(v) ==
    IF v.continue_labels = <<>> THEN leave(v, "IndexError")
    ELSE note_jump(j_to(v, Last(v.continue_labels)), "continue")

\* for i, arg in enumerate(args): self.visit(arg); self.cp(self.local(i), RESULT)
pass_args(v, args, lo, hi) ==
    IF lo > hi THEN v
    ELSE IF lo = hi
    THEN LET v1 == visit(v, args[lo])
             v2 == cp(local(v1, lo - 1), local_name(lo - 1), RESULT)
         IN  <<v1, v2>>[2]
    ELSE LET mid == (lo + hi) \div 2
             left == pass_args(v, args, lo, mid)
             right == pass_args(left, args, mid + 1, hi)
         IN  <<left, right>>[2]

\* history: the call sequence that visit_Call has just emitted.  begin is the
\* index of its first command, call that of the jump to the function, end
\* that of the command after the last pop; nargs and nlocals count the
\* registers pushed, restored the local registers popped
Site(v, node, first, return_label, before) ==
    [func |-> node.func.id, args |-> node.args, scope |-> first.scope,
     return_label |-> return_label,
     nargs |-> first.arg_count, nlocals |-> get_local_namespace(first).local_count,
     restored |-> get_local_namespace(before).local_count,
     begin |-> here(first), call |-> here(before) - 1, end |-> here(v)]

\* self.push_all(self.args()); self.push_all(self.locals());
\* self.li(JUMP_LABEL, return_label); self.push(JUMP_LABEL)
push_args(v) == push_all(v, Args(v.arg_count), 1, v.arg_count)
push_count(v, count) == push_all(v, Locals(count), 1, count)
push_locals(v) == push_count(v, get_local_namespace(v).local_count)
save_frame(v, return_label) ==
    LET args == push_args(v)
        locals == push_locals(args)
    IN  <<args, locals, push(li_to(locals, JUMP_LABEL, return_label), JUMP_LABEL)>>[3]

\* self.pop_all(self.locals()); self.pop_all(self.args())
pop_count(v, count) == pop_all(v, Locals(count), 1, count)
pop_locals(v) == pop_count(v, get_local_namespace(v).local_count)
pop_args(v) == pop_all(v, Args(v.arg_count), 1, v.arg_count)
restore_sites(v, node, first, return_label, before) ==
    [v EXCEPT !.sites = Append(@, Site(v, node, first, return_label, before))]
restore_frame(v, node, first, return_label) ==
    LET locals == pop_locals(v)
        args == pop_args(locals)
    IN  <<locals, args, restore_sites(args, node, first, return_label, v)>>[3]

\* the call of a defined function: first is the visitor after the return
\* label was taken
call_sequence(first, node, return_label) ==
    LET saved == save_frame(first, return_label)
        passed == pass_args(saved, node.args, 1, Len(node.args))
        back == label(j_to(passed, get_func_label(node.func.id)), return_label)
    IN  <<first, saved, passed, back, restore_frame(back, node, first, return_label)>>[5]

visit_Call(v, node) ==
    LET func == node.func.id
        inner == node.args[1]
    IN  IF func = <<"p", "r", "i", "n", "t">>
        THEN IF Len(node.args) # 1 THEN panic(v)
             ELSE IF inner.node # "Call" THEN panic(v)
             ELSE IF Len(inner.args) # 1 THEN panic(v)
             ELSE IF inner.func.id # <<"i", "n", "t">> THEN panic(v)
             ELSE LET v1 == visit(v, inner.args[1])
                      v2 == do(v1, <<"w", "r", "i", "t", "e">>, <<RESULT>>)
                  IN  <<v1, v2>>[2]
        ELSE IF func = <<"i", "n", "t">>
        THEN IF Len(node.args) # 1 THEN panic(v)
             ELSE IF inner.node # "Call" THEN panic(v)
             ELSE IF inner.args # <<>> THEN panic(v)
             ELSE IF inner.func.id # <<"i", "n", "p", "u", "t">> THEN panic(v)
             ELSE do(v, <<"r", "e", "a", "d">>, <<RESULT>>)
        ELSE call_sequence(add_label(v, <<"r", "e", "t", "u", "r", "n">>), node, label_name(v, <<"r", "e", "t", "u", "r", "n">>))

\* history: the return of a function has been emitted: the pop of jump-label
\* begins with the command at and the jump is the command emitted last; kind
\* tells a return statement from the end of a function body
note_return(v, at, kind) ==
    [v EXCEPT !.returns = @ \cup {[at |-> at, jump |-> here(v) - 1, kind |-> kind]}]

\* history: the parameters of a function definition have been bound; slots
\* lists their registers in source order
note_def(v, node) ==
    [v EXCEPT !.defs = @ \cup
        {[name |-> node.name,
          slots |-> [i \in 1..Len(node.args) |-> get_local_namespace(v).names[node.args[i]]]]}]

\* history: the code of a function has been emitted, from the command with
\* index entry to the one before the next command
note_body(v, node, entry) ==
    [v EXCEPT !.bodies = @ \cup {[name |-> node.name, entry |-> entry, end |-> here(v)]}]

visit_FunctionDef(v, node) ==
    LET func_label == get_func_label(node.name)
        end_label == label_name(v, <<"e", "n", "d", "-">> \o node.name)
        v1 == add_label(v, <<"e", "n", "d", "-">> \o node.name)
        v2 == [enter_scope(v1, node.name) EXCEPT !.within = node.name]
        v3 == j_to(v2, end_label)
        v4 == label(v3, func_label)
        v5 == note_def(create_names(v4, node.args, 1), node)
        v6 == visit_all(v5, node.body, 1, Len(node.body))
        v7 == pop(v6, JUMP_LABEL)
        v8 == note_return(do(v7, <<"j">>, <<JUMP_LABEL>>), here(v6), "implicit")
        v9 == label(v8, end_label)
        v10 == note_body([exit_scope(v9) EXCEPT !.within = v.within], node, here(v4))
    IN  <<v1, v2, v3, v4, v5, v6, v7, v8, v9, v10>>[10]

visit_Name(v, node) ==
    LET namespace == get_local_namespace(v)
    IN  IF node.id \notin DOMAIN namespace.names THEN panic(v)
        ELSE note_lookup(cp(v, RESULT, namespace.names[node.id]),
                         node.id, namespace.names[node.id])

visit_NamedExpr(v, node) ==
    LET v1 == visit(v, node.value)
        name == node.target.id
        v2 == get_or_create_name(v1, name)
        reg == get_local_namespace(v2).names[name]
        v3 == cp(v2, reg, RESULT)
        v4 == bind(v3, reg)
    IN  <<v1, v2, v3, v4>>[4]

visit_If(v, node) ==
    LET v1 == visit(v, node.test)
        false_label == label_name(v1, <<"e", "l", "s", "e">>)
        v2 == add_label(v1, <<"e", "l", "s", "e">>)
        end_label == label_name(v2, <<"e", "n", "d", "-", "i", "f">>)
        v3 == add_label(v2, <<"e", "n", "d", "-", "i", "f">>)
        v4 == jeqz_to(v3, RESULT, false_label)
        v5 == visit_all(v4, node.body, 1, Len(node.body))
        v6 == j_to(v5, end_label)
        v7 == label(v6, false_label)
        v8 == visit_all(v7, node.orelse, 1, Len(node.orelse))
        v9 == label(v8, end_label)
    IN  <<v1, v2, v3, v4, v5, v6, v7, v8, v9>>[9]

visit_Return(v, node) ==
    LET v1 == visit(v, node.value)
        v2 == pop(v1, JUMP_LABEL)
        v3 == note_return(do(v2, <<"j">>, <<JUMP_LABEL>>), here(v1), "explicit")
    IN  <<v1, v2, v3>>[3]

visit_UnaryOp(v, node) ==
    LET v1 == visit(v, node.operand)
    IN  IF node.op = "UAdd" THEN v1
        ELSE IF node.op = "USub" THEN do(v1, <<"s", "u", "b">>, <<RESULT, ZERO, RESULT>>)
        ELSE IF node.op = "Not" THEN do(v1, <<"s", "e", "q">>, <<RESULT, ZERO, RESULT>>)
        ELSE panic(v)

\* history: depths holds the lengths of the two label stacks with the number
\* of while statements being visited, taken whenever a stack has changed;
\* whiles holds, for each while statement visited, the index of the first
\* command of its test, the index of the command after its last jump, and
\* whether the stacks were left as they were found
note_depth(v) ==
    [v EXCEPT !.depths = @ \cup {<<Len(v.break_labels), Len(v.continue_labels), v.loops>>}]
begin_while(v) == note_depth([v EXCEPT !.loops = @ + 1])
end_while(v, before) ==
    note_depth([v EXCEPT
        !.loops = @ - 1,
        !.whiles = @ \cup {[start |-> here(before), end |-> here(v),
                            restored |-> /\ v.break_labels = before.break_labels
                                         /\ v.continue_labels = before.continue_labels]}])

visit_While(v, node) ==
    LET start_label == label_name(v, <<"s", "t", "a", "r", "t", "-", "w", "h", "i", "l", "e">>)
        v1 == add_label(v, <<"s", "t", "a", "r", "t", "-", "w", "h", "i", "l", "e">>)
        end_label == label_name(v1, <<"e", "n", "d", "-", "w", "h", "i", "l", "e">>)
        v2 == add_label(v1, <<"e", "n", "d", "-", "w", "h", "i", "l", "e">>)
        v3 == begin_while([v2 EXCEPT !.continue_labels = Append(@, start_label),
                                     !.break_labels = Append(@, end_label)])
        v4 == label(v3, start_label)
        v5 == visit(v4, node.test)
        v6 == jeqz_to(v5, RESULT, end_label)
        v7 == visit_all(v6, node.body, 1, Len(node.body))
        v8 == j_to(v7, start_label)
        v9 == label(v8, end_label)
        v10 == end_while([v9 EXCEPT !.continue_labels = SubSeq(@, 1, Len(@) - 1),
                                    !.break_labels = SubSeq(@, 1, Len(@) - 1)], v)
    IN  <<v1, v2, v3, v4, v5, v6, v7, v8, v9, v10>>[10]

\* the node classes of expressions
Expressions ==
    {"BinOp", "BoolOp", "Compare", "Constant", "Call", "Name", "NamedExpr", "UnaryOp"}
\* history: node has been visited; arg_count was entry before the visit
note_balance(v, node, entry) ==
    [v EXCEPT !.balance = @ \cup
        {[expression |-> node.node \in Expressions, entry |-> entry, exit |-> v.arg_count]}]

\* NodeVisitor.visit: the method of the node's class; Module and Expr have
\* none and generic_visit visits their children
visit(v, node) == note_balance(visit_node(v, node), node, v.arg_count)

visit_node(v, node) ==
    CASE node.node = "Module" -> visit_all(v, node.body, 1, Len(node.body))
      [] node.node = "Expr" -> visit(v, node.value)
      [] node.node = "Break" -> visit_Break(v)
      [] node.node = "Continue" -> visit_Continue(v)
      [] node.node = "Assign" -> visit_Assign(v, node)
      [] node.node = "AugAssign" -> visit_AugAssign(v, node)
      [] node.node = "BinOp" -> visit_BinOp(v, node)
      [] node.node = "BoolOp" -> visit_BoolOp(v, node)
      [] node.node = "Compare" -> visit_Compare(v, node)
      [] node.node = "Constant" -> visit_Constant(v, node)
      [] node.node = "Call" -> visit_Call(v, node)
      [] node.node = "FunctionDef" -> visit_FunctionDef(v, node)
      [] node.node = "Name" -> visit_Name(v, node)
      [] node.node = "NamedExpr" -> visit_NamedExpr(v, node)
      [] node.node = "If" -> visit_If(v, node)
      [] node.node = "Return" -> visit_Return(v, node)
      [] node.node = "UnaryOp" -> visit_UnaryOp(v, node)
      [] node.node = "While" -> visit_While(v, node)

\* the order of str on register names: '-' < '0'..'9' < 'a'..'z'
NameChars ==
    <<"-", "0", "1", "2", "3", "4", "5", "6", "7", "8", "9",
      "a", "b", "c", "d", "e", "f", "g", "h", "i", "j", "k", "l", "m",
      "n", "o", "p", "q", "r", "s", "t", "u", "v", "w", "x", "y", "z">>
Ord(c) == CHOOSE n \in 1..Len(NameChars) : NameChars[n] = c
StrLt(a, b) ==
    \E k \in 1..Len(b) :
        /\ \A m \in 1..(k - 1) : m <= Len(a) /\ a[m] = b[m]
        /\ k > Len(a) \/ Ord(a[k]) < Ord(b[k])
\* sorted(names)
Sorted(names) ==
    [i \in 1..Cardinality(names) |->
        CHOOSE x \in names : Cardinality({y \in names : StrLt(y, x)}) = i - 1]

get_code_mut(v) ==
    IF v.exit # "none"
    THEN [exit |-> v.exit, lines |-> <<>>,
          history |-> [NoDebug EXCEPT !.registers = v.registers]]
    ELSE IF Cardinality(v.registers) > 33
    THEN [exit |-> "panic", lines |-> <<>>,
          history |-> [NoDebug EXCEPT !.registers = v.registers]]
    ELSE [exit |-> "none",
          lines |-> <<<<"a", "l", "l", "o", "c", "a", "t", "e", "-", "r", "e", "g", "i", "s", "t", "e", "r", "s", " ">> \o Join(Sorted(v.registers))>>
                    \o <<<<"l", "i", " ">> \o ZERO \o <<",", " ", "0">>, <<"l", "i", " ">> \o ONE \o <<",", " ", "1">>,
                         <<"l", "i", " ">> \o STACK_POINTER \o <<",", " ", "0">>>>
                    \o v.lines \o <<<<"h", "a", "l", "t">>>>,
          history |-> [sites |-> v.sites, binds |-> v.binds, namespaces |-> v.namespaces,
                       whiles |-> v.whiles, jumps |-> v.jumps, depths |-> v.depths,
                       boolops |-> v.boolops, registers |-> v.registers,
                       returns |-> v.returns, operands |-> v.operands,
                       balance |-> v.balance, lookups |-> v.lookups, defs |-> v.defs,
                       bodies |-> v.bodies]]

\* get_code: the lines of the assembly text, unless the traversal or get_code
\* itself left early; history goes along with the text, and the register
\* names the traversal has used are history in either case
get_code(v) ==
    IF v.exit # "none"
    THEN [exit |-> v.exit, lines |-> <<>>,
          history |-> [NoDebug EXCEPT !.registers = v.registers]]
    ELSE IF Cardinality(v.registers) > 32
    THEN [exit |-> "panic", lines |-> <<>>,
          history |-> [NoDebug EXCEPT !.registers = v.registers]]
    ELSE [exit |-> "none",
          lines |-> <<<<"a", "l", "l", "o", "c", "a", "t", "e", "-", "r", "e", "g", "i", "s", "t", "e", "r", "s", " ">> \o Join(Sorted(v.registers))>>
                    \o <<<<"l", "i", " ">> \o ZERO \o <<",", " ", "0">>, <<"l", "i", " ">> \o ONE \o <<",", " ", "1">>,
                         <<"l", "i", " ">> \o STACK_POINTER \o <<",", " ", "0">>>>
                    \o v.lines \o <<<<"h", "a", "l", "t">>>>,
          history |-> [sites |-> v.sites, binds |-> v.binds, namespaces |-> v.namespaces,
                       whiles |-> v.whiles, jumps |-> v.jumps, depths |-> v.depths,
                       boolops |-> v.boolops, registers |-> v.registers,
                       returns |-> v.returns, operands |-> v.operands,
                       balance |-> v.balance, lookups |-> v.lookups, defs |-> v.defs,
                       bodies |-> v.bodies]]

\* Compiler.compile: the text it returns, as its lines; tree is ast.parse(code)
compile(tree) == get_code(visit(VisitorInit, tree))

(***************************************************************************)
(* The reference interpreter (test_compiler.execute_python): exec(script,  *)
(* env) with print bound to output_lines.append and input to the next      *)
(* input line.  It is Python itself, modelled for the subset as a machine  *)
(* that takes the first item of a list of work, todo, in each step; vals   *)
(* holds the values of the expressions evaluated and not yet used, frames  *)
(* the local variables of the calls that have not returned.  A value is a  *)
(* Python int (a bool is the int 1 or 0) or None; the line input() returns *)
(* is a value only as the argument of int.                                 *)
(***************************************************************************)
None == <<>>
IsInt(x) == x # None
Truthy(x) == x # None /\ x # Zero

Eval(node) == [op |-> "eval", node |-> node]
Do(op) == [op |-> op]
Items(nodes) == [i \in 1..Len(nodes) |-> Eval(nodes[i])]

\* the state exec starts from.  calls is history: for each call of a
\* function of the script, the variables of the caller and the input when
\* the evaluation of the call began, and the values of the arguments
PythonInit(tree, lines) ==
    [todo |-> <<Eval(tree)>>, vals |-> <<>>, frames |-> <<>>,
     globals |-> EmptyDict, funcs |-> EmptyDict,
     input |-> lines, output |-> <<>>, exc |-> "none", calls |-> <<>>]

\* the variables an expression sees: those of the function being called, or
\* the globals at module level
Env(py) == IF py.frames = <<>> THEN py.globals ELSE py.frames[1]

PyRaise(py, e) == [py EXCEPT !.todo = <<>>, !.exc = e]

Bind(py, id, value) ==
    IF py.frames = <<>> THEN [py EXCEPT !.globals = DictSet(@, id, value)]
    ELSE [py EXCEPT !.frames[1] = DictSet(@, id, value)]

\* the value of a binary operator on ints
Arith(op, a, b) ==
    CASE op = "Add" -> IntAdd(a, b)
      [] op = "Sub" -> IntSub(a, b)
      [] op = "Mult" -> IntMul(a, b)
      [] op = "FloorDiv" -> IntFloorDiv(a, b)
      [] op = "Mod" -> IntMod(a, b)

Rel(op, a, b) ==
    CASE op = "Eq" -> a = b
      [] op = "NotEq" -> a # b
      [] op = "Lt" -> IntLt(a, b)
      [] op = "Gt" -> IntLt(b, a)
      [] op = "LtE" -> IntLe(a, b)
      [] op = "GtE" -> IntLe(b, a)

\* the position of the first item of the kind in todo, 0 if there is none
Find(todo, kind) ==
    IF \E k \in 1..Len(todo) : todo[k].op = kind
    THEN CHOOSE k \in 1..Len(todo) :
            todo[k].op = kind /\ \A m \in 1..(k - 1) : todo[m].op # kind
    ELSE 0

From(s, k) == SubSeq(s, k, Len(s))

\* the first item is Eval(node): what is to be done for the node
PyNode(py, node, rest) ==
    CASE node.node = "Module" -> [py EXCEPT !.todo = Items(node.body) \o rest]
      [] node.node = "Expr" ->
            [py EXCEPT !.todo = <<Eval(node.value), Do("pop")>> \o rest]
      [] node.node = "Assign" ->
            [py EXCEPT !.todo =
                <<Eval(node.value), [op |-> "store", id |-> node.targets[1].id, keep |-> FALSE]>>
                \o rest]
      [] node.node = "AugAssign" ->
            [py EXCEPT !.todo =
                <<Eval(node.target), Eval(node.value), [op |-> "binop", kind |-> node.op],
                  [op |-> "store", id |-> node.target.id, keep |-> FALSE]>> \o rest]
      [] node.node = "NamedExpr" ->
            [py EXCEPT !.todo =
                <<Eval(node.value), [op |-> "store", id |-> node.target.id, keep |-> TRUE]>>
                \o rest]
      [] node.node = "If" ->
            [py EXCEPT !.todo =
                <<Eval(node.test), [op |-> "branch", body |-> node.body, orelse |-> node.orelse]>>
                \o rest]
      [] node.node = "While" ->
            [py EXCEPT !.todo = <<Eval(node.test), [op |-> "test", node |-> node]>> \o rest]
      [] node.node = "Break" ->
            IF Find(rest, "loop") = 0 THEN PyRaise(py, "SyntaxError")
            ELSE [py EXCEPT !.todo = From(rest, Find(rest, "loop") + 1)]
      [] node.node = "Continue" ->
            IF Find(rest, "loop") = 0 THEN PyRaise(py, "SyntaxError")
            ELSE [py EXCEPT !.todo = From(rest, Find(rest, "loop"))]
      [] node.node = "FunctionDef" ->
            [py EXCEPT !.todo = rest, !.funcs = DictSet(@, node.name, node)]
      [] node.node = "Return" ->
            [py EXCEPT !.todo = <<Eval(node.value), Do("return")>> \o rest]
      [] node.node = "Constant" ->
            [py EXCEPT !.todo = rest, !.vals = <<node.value>> \o @]
      [] node.node = "Name" ->
            IF node.id \in DOMAIN Env(py)
            THEN [py EXCEPT !.todo = rest, !.vals = <<Env(py)[node.id]>> \o @]
            ELSE IF node.id \in DOMAIN py.globals
            THEN [py EXCEPT !.todo = rest, !.vals = <<py.globals[node.id]>> \o @]
            ELSE PyRaise(py, "NameError")
      [] node.node = "BinOp" ->
            [py EXCEPT !.todo =
                <<Eval(node.left), Eval(node.right), [op |-> "binop", kind |-> node.op]>>
                \o rest]
      [] node.node = "UnaryOp" ->
            [py EXCEPT !.todo =
                <<Eval(node.operand), [op |-> "unary", kind |-> node.op]>> \o rest]
      [] node.node = "Compare" ->
            [py EXCEPT !.todo =
                <<Eval(node.left), Eval(node.comparators[1]),
                  [op |-> "compare", kind |-> node.ops[1]]>> \o rest]
      [] node.node = "BoolOp" ->
            [py EXCEPT !.todo =
                <<Eval(node.values[1]), [op |-> "boolop", kind |-> node.op, node |-> node.values[2]]>>
                \o rest]
      [] node.node = "Call" ->
            IF node.func.id = <<"p", "r", "i", "n", "t">>
            THEN [py EXCEPT !.todo = <<Eval(node.args[1]), Do("print")>> \o rest]
            ELSE IF node.func.id = <<"i", "n", "t">> /\ node.args[1].node = "Call"
                    /\ node.args[1].func.id = <<"i", "n", "p", "u", "t">>
            THEN IF py.input = <<>> THEN PyRaise(py, "StopIteration")
                 ELSE IF ~IsIntStr(Head(py.input))
                 THEN PyRaise([py EXCEPT !.input = Tail(@)], "ValueError")
                 ELSE [py EXCEPT !.todo = rest, !.input = Tail(@),
                                 !.vals = <<StrInt(Head(py.input))>> \o @]
            ELSE IF node.func.id = <<"i", "n", "t">>
            THEN [py EXCEPT !.todo = <<Eval(node.args[1]), Do("int")>> \o rest]
            ELSE IF node.func.id = <<"i", "n", "p", "u", "t">> THEN PyRaise(py, "Unsupported")
            ELSE IF node.func.id \notin DOMAIN py.funcs THEN PyRaise(py, "NameError")
            ELSE [py EXCEPT !.todo =
                    Items(node.args)
                    \o <<[op |-> "call", func |-> node.func.id, env |-> Env(py),
                          input |-> py.input, given |-> Len(node.args)]>>
                    \o rest]

\* the call of a function of the script with the values args: the parameters
\* are the variables of the new frame, its body is done up to the item "ret"
PyCall(py, item, args, rest) ==
    LET def == py.funcs[item.func]
    IN  IF Len(def.args) # Len(args) THEN PyRaise(py, "TypeError")
        ELSE [py EXCEPT
                !.todo = Items(def.body) \o <<Do("ret")>> \o rest,
                !.frames = <<[id \in Elems(def.args) |->
                                args[CHOOSE i \in 1..Len(args) : def.args[i] = id]]>> \o @,
                !.calls = Append(@, [func |-> item.func, env |-> item.env,
                                     input |-> item.input, args |-> args])]

\* the first item is not Eval: x is the value computed last, y the one before
PyItem(py, item, rest) ==
    LET x == py.vals[1]
        y == py.vals[2]
    IN  CASE item.op = "pop" -> [py EXCEPT !.todo = rest, !.vals = Tail(@)]
          [] item.op = "store" ->
                [Bind(py, item.id, x) EXCEPT
                    !.todo = rest, !.vals = IF item.keep THEN @ ELSE Tail(@)]
          [] item.op = "binop" ->
                IF ~(IsInt(x) /\ IsInt(y)) THEN PyRaise(py, "TypeError")
                ELSE IF item.kind \in {"FloorDiv", "Mod"} /\ x = Zero
                THEN PyRaise(py, "ZeroDivisionError")
                ELSE [py EXCEPT !.todo = rest,
                                !.vals = <<Arith(item.kind, y, x)>> \o From(@, 3)]
          [] item.op = "unary" ->
                IF item.kind = "Not"
                THEN [py EXCEPT !.todo = rest, !.vals = <<BoolInt(~Truthy(x))>> \o Tail(@)]
                ELSE IF ~IsInt(x) THEN PyRaise(py, "TypeError")
                ELSE [py EXCEPT !.todo = rest,
                                !.vals = <<IF item.kind = "USub" THEN IntNeg(x) ELSE x>>
                                         \o Tail(@)]
          [] item.op = "compare" ->
                IF item.kind \in {"Eq", "NotEq"}
                THEN [py EXCEPT !.todo = rest,
                                !.vals = <<BoolInt((y = x) = (item.kind = "Eq"))>> \o From(@, 3)]
                ELSE IF ~(IsInt(x) /\ IsInt(y)) THEN PyRaise(py, "TypeError")
                ELSE [py EXCEPT !.todo = rest,
                                !.vals = <<BoolInt(Rel(item.kind, y, x))>> \o From(@, 3)]
          [] item.op = "boolop" ->
                IF Truthy(x) = (item.kind = "Or") THEN [py EXCEPT !.todo = rest]
                ELSE [py EXCEPT !.todo = <<Eval(item.node)>> \o rest, !.vals = Tail(@)]
          [] item.op = "branch" ->
                [py EXCEPT !.todo = Items(IF Truthy(x) THEN item.body ELSE item.orelse) \o rest,
                           !.vals = Tail(@)]
          [] item.op = "test" ->
                IF Truthy(x)
                THEN [py EXCEPT !.todo = Items(item.node.body)
                                         \o <<[op |-> "loop", node |-> item.node]>> \o rest,
                                !.vals = Tail(@)]
                ELSE [py EXCEPT !.todo = rest, !.vals = Tail(@)]
          [] item.op = "loop" ->
                [py EXCEPT !.todo = <<Eval(item.node.test), [op |-> "test", node |-> item.node]>>
                                    \o rest]
          [] item.op = "int" ->
                IF ~IsInt(x) THEN PyRaise(py, "TypeError") ELSE [py EXCEPT !.todo = rest]
          [] item.op = "print" ->
                [py EXCEPT !.todo = rest, !.vals = <<None>> \o Tail(@),
                           !.output = Append(@, x)]
          [] item.op = "call" ->
                PyCall([py EXCEPT !.vals = From(@, item.given + 1)], item,
                       [i \in 1..item.given |-> py.vals[item.given + 1 - i]], rest)
          [] item.op = "return" ->
                IF Find(rest, "ret") = 0 THEN PyRaise(py, "SyntaxError")
                ELSE [py EXCEPT !.todo = From(rest, Find(rest, "ret") + 1),
                                !.frames = Tail(@)]
          [] item.op = "ret" ->
                [py EXCEPT !.todo = rest, !.frames = Tail(@), !.vals = <<None>> \o @]

\* one step of the interpreter
PyStep(py) ==
    IF Head(py.todo).op = "eval" THEN PyNode(py, Head(py.todo).node, Tail(py.todo))
    ELSE PyItem(py, Head(py.todo), Tail(py.todo))

(***************************************************************************)
(* History of a run of compiled code.  The compiler tells where each call  *)
(* sequence begins, jumps and ends (debug.sites) and which commands assign *)
(* a variable (debug.binds); shadow follows the pointer through them.  Its *)
(* frames are the call sequences begun and not yet ended, innermost first: *)
(* the sequence, the registers, the input and the variables assigned when  *)
(* it began.  bound is the set of the variables assigned so far in the     *)
(* function being run, arrivals counts the jumps to functions, fresh says  *)
(* that the command run last was such a jump, and prev is its index.       *)
(***************************************************************************)
NoShadow ==
    [frames |-> <<>>, bound |-> {}, arrivals |-> 0, fresh |-> FALSE, prev |-> -1,
     ret |-> [kind |-> "none", value |-> Zero], held |-> <<>>, cells |-> 0]

\* the operations whose left operand is copied by the command at p, and
\* those whose operator is the command at p
CopiesAt(p) == {o \in debug.operands : Z(o.copy) = p}
OperatesAt(p) == {o \in debug.operands : Z(o.op) = p}
\* held: the left operands copied and not yet used, latest first, each with
\* its operation and the value result held when it was copied
Holding(sh) ==
    IF CopiesAt(pointer) # {}
    THEN <<[op |-> (CHOOSE o \in CopiesAt(pointer) : TRUE).op,
            value |-> registers[named_val.value.registers[RESULT]]]>> \o sh.held
    ELSE IF OperatesAt(pointer) # {} /\ sh.held # <<>>
    THEN Tail(sh.held)
    ELSE sh.held

\* cells: the stores of the compiled code run so far less its loads, which
\* is the number of cells pushed and not yet popped
Stacked(sh) ==
    IF debug = NoDebug THEN sh.cells
    ELSE IF commands[ToSmall(pointer) + 1].cmd = "st" THEN sh.cells + 1
    ELSE IF commands[ToSmall(pointer) + 1].cmd = "ld" THEN sh.cells - 1
    ELSE sh.cells

\* the return whose pop of jump-label begins at p
ReturnsAt(p) == {r \in debug.returns : Z(r.at) = p}
\* ret: the kind of the return begun last and what result held when it began
Leaving(sh) ==
    IF ReturnsAt(pointer) = {} THEN sh.ret
    ELSE [kind |-> (CHOOSE r \in ReturnsAt(pointer) : TRUE).kind,
          value |-> registers[named_val.value.registers[RESULT]]]

\* the call sequence whose first command is at p, 0 if there is none
SiteAt(p) ==
    IF \E s \in 1..Len(debug.sites) : Z(debug.sites[s].begin) = p
    THEN CHOOSE s \in 1..Len(debug.sites) : Z(debug.sites[s].begin) = p
    ELSE 0

\* the command with index p is the jump that ends a function: j jump-label
\* after the pop of jump-label
IsReturn(p) == p >= 1 /\ commands[p + 1].cmd = "j" /\ commands[p].cmd = "ld"

\* the function of the innermost frame has just returned to its caller
Returns(sh) ==
    /\ sh.frames # <<>>
    /\ sh.frames[1].state = "called"
    /\ pointer = Z(debug.sites[sh.frames[1].site].call + 1)
    /\ IsReturn(sh.prev)
Returned(sh) == IF Returns(sh) THEN [sh EXCEPT !.frames[1].state = "returned"] ELSE sh

\* the command at the pointer is the one after the last pop of the call
\* sequence of the innermost frame
AtEnd(sh) ==
    /\ sh.frames # <<>>
    /\ sh.frames[1].state = "returned"
    /\ pointer = Z(debug.sites[sh.frames[1].site].end)
\* it is the jump to the function
AtCall(sh) ==
    /\ sh.frames # <<>>
    /\ sh.frames[1].state = "begun"
    /\ pointer = Z(debug.sites[sh.frames[1].site].call)

\* shadow after the command at the pointer
Track ==
    LET back == Returned(shadow)
        ended == IF AtEnd(back)
                 THEN [back EXCEPT !.frames = Tail(@), !.bound = back.frames[1].resume]
                 ELSE back
        begun == IF SiteAt(pointer) # 0
                 THEN [ended EXCEPT !.frames =
                        <<[site |-> SiteAt(pointer), regs |-> registers, mem |-> mem, input |-> input,
                           bound |-> ended.bound, resume |-> ended.bound, event |-> 0,
                           state |-> "begun"]>> \o @]
                 ELSE ended
        called == IF AtCall(begun)
                  THEN [begun EXCEPT
                          !.frames[1].resume = begun.bound,
                          !.frames[1].event = begun.arrivals + 1,
                          !.frames[1].state = "called",
                          !.bound = Elems(Locals(Len(debug.sites[begun.frames[1].site].args))),
                          !.arrivals = @ + 1,
                          !.fresh = TRUE]
                  ELSE [begun EXCEPT !.fresh = FALSE]
    IN  [called EXCEPT !.bound = @ \cup {b.reg : b \in {c \in debug.binds : Z(c.at) = pointer}},
                       !.prev = ToSmall(pointer),
                       !.ret = Leaving(shadow),
                       !.held = Holding(shadow),
                       !.cells = Stacked(shadow)]

(***************************************************************************)
(* The SLIM virtual machine (worm/slim/interpreter.py)                     *)
(***************************************************************************)
MaxOutput == 12   \* console output lines in a run

TwoTo31 == <<0, 32768, 0, 0>>
TwoTo32 == <<0, 0, 1, 0>>

bound_int_mut(i) == IntMod(IntAdd(i, TwoTo31), TwoTo32)

bound_int(i) == IntSub(IntMod(IntAdd(i, TwoTo31), TwoTo32), TwoTo31)

sign(i) == IF IntLt(Zero, i) THEN 1 ELSE IF i = Zero THEN 0 ELSE -1

swap_sign_mut(a, b) == <<a, b>>

swap_sign(a, b) == IF sign(a) = sign(b) THEN <<a, b>> ELSE <<IntNeg(a), IntNeg(b)>>

\* list indexing self.registers[r]: indices -32..-1 count from the end
ValidReg(r) == IntLe(Z(-32), r) /\ IntLt(r, Z(32))
Ix(r) == ToSmall(r) % 32
Reg(r) == registers[Ix(r)]

\* the loop condition of execute
InRange == IntLe(Zero, pointer) /\ IntLt(pointer, Z(Len(commands)))
\* self.commands[self.pointer]
Fetch == commands[ToSmall(pointer) + 1]
Arg(k) == Fetch.args[k]
\* exec_command dispatches on command.cmd; the VM never touches the values
\* of the assembler passes.  shadow follows the command about to run
Dispatch(cmd) ==
    /\ ctl = "execute"
    /\ InRange
    /\ Fetch.cmd = cmd
    /\ shadow' = Track
    /\ UNCHANGED <<pipeVars, wormVars>>

next_line == pointer' = IntAdd(pointer, One)

\* an exception other than HaltException leaves execute (and interpret)
Raise(e) == ctl' = "raised" /\ exc' = e

Op3_mut(result, fails) ==
    LET dest == Arg(1)
        src1 == Arg(2)
        src2 == Arg(3)
    IN  IF ~(ValidReg(src1) /\ ValidReg(src2))
        THEN Raise("IndexError") /\ UNCHANGED <<vmVars, conVars>>
        ELSE IF fails
        THEN /\ Raise("ZeroDivisionError")
             /\ registers' = [registers EXCEPT ![Ix(dest)] = Reg(src1)]
             /\ UNCHANGED <<commands, mem, pointer, conVars>>
        ELSE IF ~ValidReg(dest)
        THEN Raise("IndexError") /\ UNCHANGED <<vmVars, conVars>>
        ELSE /\ registers' = [registers EXCEPT ![Ix(dest)] = result]
             /\ next_line
             /\ UNCHANGED <<commands, mem, conVars, ctl, exc>>

\* dest = f(src1, src2), the shape of the twelve three-register commands
Op3(result, fails) ==
    LET dest == Arg(1)
        src1 == Arg(2)
        src2 == Arg(3)
    IN  IF ~(ValidReg(src1) /\ ValidReg(src2))
        THEN Raise("IndexError") /\ UNCHANGED <<vmVars, conVars>>
        ELSE IF fails
        THEN Raise("ZeroDivisionError") /\ UNCHANGED <<vmVars, conVars>>
        ELSE IF ~ValidReg(dest)
        THEN Raise("IndexError") /\ UNCHANGED <<vmVars, conVars>>
        ELSE /\ registers' = [registers EXCEPT ![Ix(dest)] = result]
             /\ next_line
             /\ UNCHANGED <<commands, mem, conVars, ctl, exc>>

add == /\ Dispatch("add")
       /\ Op3(bound_int(IntAdd(Reg(Arg(2)), Reg(Arg(3)))), FALSE)

sub == /\ Dispatch("sub")
       /\ Op3(bound_int(IntSub(Reg(Arg(2)), Reg(Arg(3)))), FALSE)

mul == /\ Dispatch("mul")
       /\ Op3(bound_int(IntMul(Reg(Arg(2)), Reg(Arg(3)))), FALSE)

div == /\ Dispatch("div")
       /\ Op3(bound_int(IntFloorDiv(Reg(Arg(2)), Reg(Arg(3)))), Reg(Arg(3)) = Zero)

quo_mut ==
    /\ Dispatch("quo")
    /\ Op3(bound_int(IntNeg(IntFloorDiv(IntNeg(Reg(Arg(2))), Reg(Arg(3))))),
           Reg(Arg(3)) = Zero)

quo == /\ Dispatch("quo")
       /\ Op3(bound_int(IntFloorDiv(Reg(Arg(2)), Reg(Arg(3)))), Reg(Arg(3)) = Zero)

rem == /\ Dispatch("rem")
       /\ LET ab == swap_sign(Reg(Arg(2)), Reg(Arg(3)))
          IN  Op3(bound_int(IntMod(ab[1], ab[2])), ab[2] = Zero)

seq == /\ Dispatch("seq")
       /\ Op3(BoolInt(Reg(Arg(2)) = Reg(Arg(3))), FALSE)

sne == /\ Dispatch("sne")
       /\ Op3(BoolInt(Reg(Arg(2)) # Reg(Arg(3))), FALSE)

slt == /\ Dispatch("slt")
       /\ Op3(BoolInt(IntLt(Reg(Arg(2)), Reg(Arg(3)))), FALSE)

sgt == /\ Dispatch("sgt")
       /\ Op3(BoolInt(IntLt(Reg(Arg(3)), Reg(Arg(2)))), FALSE)

sle == /\ Dispatch("sle")
       /\ Op3(BoolInt(IntLe(Reg(Arg(2)), Reg(Arg(3)))), FALSE)

sge == /\ Dispatch("sge")
       /\ Op3(BoolInt(IntLe(Reg(Arg(3)), Reg(Arg(2)))), FALSE)

ld == /\ Dispatch("ld")
      /\ LET dest == Arg(1)
             addr == Arg(2)
         IN  IF ~ValidReg(addr)
             THEN Raise("IndexError") /\ UNCHANGED <<vmVars, conVars>>
             ELSE IF Reg(addr) \notin DOMAIN mem
             THEN Raise("KeyError") /\ UNCHANGED <<vmVars, conVars>>
             ELSE IF ~ValidReg(dest)
             THEN Raise("IndexError") /\ UNCHANGED <<vmVars, conVars>>
             ELSE /\ registers' = [registers EXCEPT ![Ix(dest)] = mem[Reg(addr)]]
                  /\ next_line
                  /\ UNCHANGED <<commands, mem, conVars, ctl, exc>>

st_mut ==
    /\ Dispatch("st")
    /\ LET src == Arg(1)
           addr == Arg(2)
       IN  IF ~(ValidReg(src) /\ ValidReg(addr))
           THEN Raise("IndexError") /\ UNCHANGED <<vmVars, conVars>>
           ELSE /\ mem' = [k \in DOMAIN mem \cup {addr} |->
                              IF k = addr THEN Reg(src) ELSE mem[k]]
                /\ next_line
                /\ UNCHANGED <<commands, registers, conVars, ctl, exc>>

st == /\ Dispatch("st")
      /\ LET src == Arg(1)
             addr == Arg(2)
         IN  IF ~(ValidReg(src) /\ ValidReg(addr))
             THEN Raise("IndexError") /\ UNCHANGED <<vmVars, conVars>>
             ELSE /\ mem' = [k \in DOMAIN mem \cup {Reg(addr)} |->
                                IF k = Reg(addr) THEN Reg(src) ELSE mem[k]]
                  /\ next_line
                  /\ UNCHANGED <<commands, registers, conVars, ctl, exc>>

li == /\ Dispatch("li")
      /\ LET dest == Arg(1)
             const == Arg(2)
         IN  IF ~ValidReg(dest)
             THEN Raise("IndexError") /\ UNCHANGED <<vmVars, conVars>>
             ELSE /\ registers' = [registers EXCEPT ![Ix(dest)] = const]
                  /\ next_line
                  /\ UNCHANGED <<commands, mem, conVars, ctl, exc>>

\* console.read() takes the next line before int() and the store can fail
read == /\ Dispatch("read")
        /\ LET dest == Arg(1)
           IN  IF input = <<>>
               THEN Raise("StopIteration") /\ UNCHANGED <<vmVars, conVars>>
               ELSE /\ input' = Tail(input)
                    /\ IF ~IsIntStr(Head(input))
                       THEN Raise("ValueError") /\ UNCHANGED <<vmVars, output, error>>
                       ELSE IF ~ValidReg(dest)
                       THEN Raise("IndexError") /\ UNCHANGED <<vmVars, output, error>>
                       ELSE /\ registers' = [registers EXCEPT ![Ix(dest)] = StrInt(Head(input))]
                            /\ next_line
                            /\ UNCHANGED <<commands, mem, output, error, ctl, exc>>

write_mut ==
    /\ Dispatch("write")
    /\ Len(output) < MaxOutput
    /\ LET src == Arg(1)
       IN  IF ~ValidReg(src)
           THEN Raise("IndexError") /\ UNCHANGED <<vmVars, conVars>>
           ELSE /\ output' = <<IntStr(Reg(src))>> \o output
                /\ next_line
                /\ UNCHANGED <<commands, registers, mem, input, error, ctl, exc>>

\* runs are cut off before the output grows beyond MaxOutput lines
write == /\ Dispatch("write")
         /\ Len(output) < MaxOutput
         /\ LET src == Arg(1)
            IN  IF ~ValidReg(src)
                THEN Raise("IndexError") /\ UNCHANGED <<vmVars, conVars>>
                ELSE /\ output' = Append(output, IntStr(Reg(src)))
                     /\ next_line
                     /\ UNCHANGED <<commands, registers, mem, input, error, ctl, exc>>

j_mut ==
    /\ Dispatch("j")
    /\ LET addr == Arg(1)
       IN  IF ~ValidReg(addr)
           THEN Raise("IndexError") /\ UNCHANGED <<vmVars, conVars>>
           ELSE /\ pointer' = addr
                /\ UNCHANGED <<commands, registers, mem, conVars, ctl, exc>>

j == /\ Dispatch("j")
     /\ LET addr == Arg(1)
        IN  IF ~ValidReg(addr)
            THEN Raise("IndexError") /\ UNCHANGED <<vmVars, conVars>>
            ELSE /\ pointer' = Reg(addr)
                 /\ UNCHANGED <<commands, registers, mem, conVars, ctl, exc>>

jeqz == /\ Dispatch("jeqz")
        /\ LET src == Arg(1)
               addr == Arg(2)
           IN  IF ~ValidReg(src)
               THEN Raise("IndexError") /\ UNCHANGED <<vmVars, conVars>>
               ELSE IF Reg(src) = Zero
               THEN IF ~ValidReg(addr)
                    THEN Raise("IndexError") /\ UNCHANGED <<vmVars, conVars>>
                    ELSE /\ pointer' = Reg(addr)
                         /\ UNCHANGED <<commands, registers, mem, conVars, ctl, exc>>
               ELSE /\ next_line
                    /\ UNCHANGED <<commands, registers, mem, conVars, ctl, exc>>

halt_mut == /\ Dispatch("halt")
            /\ next_line
            /\ UNCHANGED <<commands, registers, mem, conVars, ctl, exc>>

\* halt raises HaltException, which execute catches to leave the loop
halt == /\ Dispatch("halt")
        /\ ctl' = "done"
        /\ exc' = "HaltException"
        /\ UNCHANGED <<vmVars, conVars>>

\* the loop condition of execute is false: execute returns
execute_exit == /\ ctl = "execute"
                /\ ~InRange
                /\ ctl' = "done"
                /\ UNCHANGED <<vmVars, conVars, exc, pipeVars, wormVars, shadow>>

(***************************************************************************)
(* Interpreter.interpret (worm/slim/interpreter.py)                        *)
(***************************************************************************)
\* flatmap(val, func): result stands for func(val.value), which is evaluated
\* only when val is a Success
flatmap(val, result) == IF IsSuccess(val) THEN result ELSE val

HasMessage(e) ==
    e.type \in {"UnknownOpcodeError", "MissingArgumentError",
                "TooManyArgumentsError", "UnknownNameError"}

\* get_message of the error classes that implement it
get_message(e) ==
    IF e.type = "UnknownOpcodeError"
    THEN <<"U", "n", "k", "n", "o", "w", "n", " ", "o", "p", "c", "o", "d", "e", " ", "'">> \o e.name \o <<"'", " ", "i", "n", " ", "l", "i", "n", "e", " ">> \o Str(e.line) \o <<".">>
    ELSE IF e.type = "UnknownNameError"
    THEN <<"U", "n", "k", "n", "o", "w", "n", " ", "n", "a", "m", "e", " ", "'">> \o e.name \o <<"'", " ", "i", "n", " ", "l", "i", "n", "e", " ">> \o Str(e.line) \o <<".">>
    ELSE IF e.type = "MissingArgumentError"
    THEN <<"M", "i", "s", "s", "i", "n", "g", " ", "a", "r", "g", "u", "m", "e", "n", "t", " ", "i", "n", " ", "l", "i", "n", "e", " ">> \o Str(e.line) \o <<".">>
    ELSE <<"T", "o", "o", " ", "m", "a", "n", "y", " ", "a", "r", "g", "u", "m", "e", "n", "t", "s", " ", "i", "n", " ", "l", "i", "n", "e", " ">> \o Str(e.line) \o <<".">>

\* parsed_val = parser.parse(code.splitlines())
interpret_parse ==
    /\ ctl = "parse"
    /\ parsed_val' = parse(code)
    /\ passes' = Append(passes, "parse")
    /\ IF IsRaised(parse(code))
       THEN Raise(parse(code).value)
       ELSE ctl' = "name" /\ UNCHANGED exc
    /\ UNCHANGED <<vmVars, conVars, code, named_val, resolved_val, wormVars, shadow>>

\* named_val = flatmap(parsed_val, namer.do_name)
interpret_name ==
    /\ ctl = "name"
    /\ named_val' = flatmap(parsed_val, do_name(parsed_val.value))
    /\ passes' = IF IsSuccess(parsed_val) THEN Append(passes, "do_name") ELSE passes
    /\ ctl' = "resolve"
    /\ UNCHANGED <<vmVars, conVars, code, parsed_val, resolved_val, exc, wormVars, shadow>>

\* resolved_val = flatmap(named_val, resolver.resolve)
interpret_resolve ==
    /\ ctl = "resolve"
    /\ resolved_val' = flatmap(named_val, resolve(named_val.value))
    /\ passes' = IF IsSuccess(named_val) THEN Append(passes, "resolve") ELSE passes
    /\ ctl' = "branch"
    /\ UNCHANGED <<vmVars, conVars, code, parsed_val, named_val, exc, wormVars, shadow>>

\* the messages the loop writes before it ends or get_message raises
Messages(errors) ==
    LET written == {n \in 0..Len(errors) : \A i \in 1..n : HasMessage(errors[i])}
        last == CHOOSE n \in written : \A m \in written : m <= n
    IN  [i \in 1..last |-> get_message(errors[i])]

\* for error in resolved_val.value: self.console.write_error(error.get_message())
interpret_errors ==
    /\ ctl = "branch"
    /\ IsFailure(resolved_val)
    /\ error' = error \o Messages(resolved_val.value)
    /\ IF \A i \in 1..Len(resolved_val.value) : HasMessage(resolved_val.value[i])
       THEN ctl' = "done" /\ UNCHANGED exc
       ELSE Raise("NotImplementedError")
    /\ UNCHANGED <<vmVars, input, output, pipeVars, wormVars, shadow>>

\* SLIM(compiled, self.console).execute(): the constructor, up to the loop
interpret_execute ==
    /\ ctl = "branch"
    /\ IsSuccess(resolved_val)
    /\ commands' = resolved_val.value
    /\ registers' = [r \in 0..31 |-> Zero]
    /\ mem' = [k \in {} |-> Zero]
    /\ pointer' = Zero
    /\ passes' = Append(passes, "execute")
    /\ ctl' = "execute"
    /\ UNCHANGED <<conVars, code, parsed_val, named_val, resolved_val, exc, wormVars, shadow>>

(***************************************************************************)
(* do_test_script (worm/test/test_compiler.py): execute_python(script,     *)
(* lines), then execute_worm(script, lines)                                *)
(***************************************************************************)
\* str.splitlines for a text whose only line boundary is "\n"
RECURSIVE splitlines(_)
splitlines(text) ==
    IF text = <<>> THEN <<>>
    ELSE IF \A i \in 1..Len(text) : text[i] # "\n" THEN <<text>>
    ELSE LET k == CHOOSE i \in 1..Len(text) :
                    text[i] = "\n" /\ \A m \in 1..(i - 1) : text[m] # "\n"
         IN  <<SubSeq(text, 1, k - 1)>> \o splitlines(SubSeq(text, k + 1, Len(text)))

\* exec(script, env), a step at a time; an exception of the script leaves
\* do_test_script
python_step(next) ==
    /\ python' = next
    /\ IF next.exc # "none" THEN Raise(next.exc)
       ELSE /\ ctl' = IF next.todo = <<>> THEN "compile" ELSE "python"
            /\ UNCHANGED exc

execute_python ==
    /\ ctl = "python"
    /\ python_step(PyStep(python))
    /\ UNCHANGED <<vmVars, conVars, pipeVars, source, debug, shadow>>

\* compiled = Compiler().compile(script); interpret(compiled) begins with
\* compiled.splitlines()
interpret_compiled(compiled) ==
    /\ debug' = compiled.history
    /\ IF compiled.exit = "none"
       THEN /\ code' = compiled.lines
            /\ ctl' = "parse"
            /\ UNCHANGED exc
       ELSE /\ Raise(IF compiled.exit = "panic" THEN "SystemExit" ELSE compiled.exit)
            /\ UNCHANGED code

execute_worm ==
    /\ ctl = "compile"
    /\ interpret_compiled(compile(source))
    /\ UNCHANGED <<vmVars, conVars, parsed_val, named_val, resolved_val, passes,
                   source, python, shadow>>

(***************************************************************************)
(* The VM on its own: SLIM(commands, console).execute() for resolved       *)
(* programs and console inputs drawn from bounded sets.                    *)
(***************************************************************************)
MaxTail == 1    \* commands after the two leading reads and the command under test
MaxInput == 2   \* console input lines

Cmd0(c) == [cmd |-> c, args |-> <<>>]
Cmd1(c, a) == [cmd |-> c, args |-> <<Z(a)>>]
Cmd2(c, a, b) == [cmd |-> c, args |-> <<Z(a), Z(b)>>]
Cmd3(c, a, b, d) == [cmd |-> c, args |-> <<Z(a), Z(b), Z(d)>>]

Op3Names == {"add", "sub", "mul", "div", "quo", "rem",
             "seq", "sne", "slt", "sgt", "sle", "sge"}

\* the command under test; registers 0 and 1 hold the two values read,
\* register 2 takes results
BodyCmds ==
    {Cmd3(c, 2, 0, 1) : c \in Op3Names}
    \cup {Cmd2("ld", 2, 1), Cmd2("st", 0, 1),
          [cmd |-> "li", args |-> <<Z(2), TwoTo31>>],
          Cmd1("read", 2), Cmd1("write", 2), Cmd1("write", 0),
          Cmd1("j", 1), Cmd2("jeqz", 0, 1), Cmd0("halt")}

\* the commands that may follow it
TailCmds == {Cmd1("write", 2), Cmd2("ld", 2, 1), Cmd1("j", 1), Cmd0("halt")}

RECURSIVE SeqsUpTo(_, _)
SeqsUpTo(S, n) ==
    IF n = 0 THEN {<<>>}
    ELSE LET shorter == SeqsUpTo(S, n - 1)
         IN  shorter \cup {Append(q, x) : q \in shorter, x \in S}

\* repeated doubling of 1, 31 times, then write (the overflow test)
OverflowProgram ==
    << [cmd |-> "li", args |-> <<Z(0), Z(1)>>],
       [cmd |-> "li", args |-> <<Z(1), Z(2)>>],
       [cmd |-> "li", args |-> <<Z(2), Z(31)>>],
       [cmd |-> "li", args |-> <<Z(3), Z(1)>>],
       [cmd |-> "li", args |-> <<Z(4), Z(7)>>],
       [cmd |-> "li", args |-> <<Z(5), Z(11)>>],
       [cmd |-> "li", args |-> <<Z(6), Z(0)>>],
       Cmd2("jeqz", 2, 5),
       Cmd3("mul", 0, 0, 1),
       Cmd3("sub", 2, 2, 3),
       Cmd1("j", 4),
       Cmd1("write", 0),
       Cmd0("halt") >>

\* 7 and 2 under every combination of signs, divided, then the result
\* written (the negative-dividend and negative-divisor tests)
SignProgram(op, minus_a, minus_b) ==
    << [cmd |-> "li", args |-> <<Z(0), Z(7)>>],
       [cmd |-> "li", args |-> <<Z(1), Z(2)>>] >>
    \o (IF minus_a THEN <<Cmd3("sub", 0, 3, 0)>> ELSE <<>>)
    \o (IF minus_b THEN <<Cmd3("sub", 1, 3, 1)>> ELSE <<>>)
    \o <<Cmd3(op, 2, 0, 1), Cmd1("write", 2)>>

SignPrograms ==
    {SignProgram(op, minus_a, minus_b) :
        op \in {"div", "quo", "rem"}, minus_a \in BOOLEAN, minus_b \in BOOLEAN}

Programs ==
    {<<Cmd1("read", 0), Cmd1("read", 1), c>> \o tail :
        c \in BodyCmds, tail \in SeqsUpTo(TailCmds, MaxTail)}
    \cup {OverflowProgram}
    \cup SignPrograms

InputLines ==
    { <<"0">>, <<"1">>, <<"-", "7">>,
      <<"2", "1", "4", "7", "4", "8", "3", "6", "4", "7">>,
      <<"-", "2", "1", "4", "7", "4", "8", "3", "6", "4", "8">>,
      <<"4", "2", "9", "4", "9", "6", "7", "2", "9", "6">>,
      <<"x">> }

Inputs == SeqsUpTo(InputLines, MaxInput)

\* SLIM.__init__
InitVM ==
    /\ commands \in Programs
    /\ registers = [r \in 0..31 |-> Zero]
    /\ mem = [k \in {} |-> Zero]
    /\ pointer = Zero
    /\ input \in Inputs
    /\ output = <<>>
    /\ error = <<>>
    /\ ctl = "execute"
    /\ exc = "none"
    /\ code = <<>>
    /\ parsed_val = Unset
    /\ named_val = Unset
    /\ resolved_val = Unset
    /\ passes = <<"execute">>
    /\ source = Module(<<>>)
    /\ python = PythonInit(Module(<<>>), <<>>)
    /\ debug = NoDebug
    /\ shadow = NoShadow

NextVM ==
    \/ add \/ sub \/ mul \/ div \/ quo \/ rem
    \/ seq \/ sne \/ slt \/ sgt \/ sle \/ sge
    \/ ld \/ st \/ li \/ read \/ write \/ j \/ jeqz \/ halt
    \/ execute_exit

SpecVM == InitVM /\ [][NextVM]_vars

(***************************************************************************)
(* Properties of the VM                                                    *)
(***************************************************************************)
MinusTwoTo31 == IntNeg(TwoTo31)
\* v is in the signed 32-bit range [-2^31, 2^31)
InI32(v) == IntLe(MinusTwoTo31, v) /\ IntLt(v, TwoTo31)

Line_MinInt == <<"-", "2", "1", "4", "7", "4", "8", "3", "6", "4", "8">>

\* C1: execute runs a command only while 0 <= pointer < len(commands); with
\* the pointer outside that range it returns at once, changing nothing; a
\* halt command ends the run at once and leaves pointer, registers, memory
\* and console as they were; after the run has ended nothing changes.
C1_ExecuteStops ==
    [][ /\ (ctl = "execute" /\ ~InRange)
            => (ctl' = "done" /\ UNCHANGED <<vmVars, conVars>>)
        /\ (ctl = "execute" /\ InRange /\ Fetch.cmd = "halt")
            => (ctl' = "done" /\ UNCHANGED <<vmVars, conVars>>)
        /\ (ctl # "execute") => UNCHANGED <<vmVars, conVars, ctl>>
        /\ (<<registers, mem, pointer, input, output>>' # <<registers, mem, pointer, input, output>>)
            => (ctl = "execute" /\ InRange)
      ]_vars

\* a halt was executed while a later command was still to come
C1_Witness ==
    /\ ctl = "done"
    /\ exc = "HaltException"
    /\ InRange
    /\ IntLt(IntAdd(pointer, One), Z(Len(commands)))
    /\ registers[0] # Zero

ArithOps == {"add", "sub", "mul", "div", "quo", "rem"}

\* a mod b when the operands share their sign or one of them is zero, and
\* (-a) mod (-b) otherwise
AlignedMod(a, b) ==
    IF a = Zero \/ b = Zero \/ IsNeg(a) = IsNeg(b) THEN IntMod(a, b)
    ELSE IntMod(IntNeg(a), IntNeg(b))

\* the result of an arithmetic command over the unbounded integers
Exact(op, a, b) ==
    CASE op = "add" -> IntAdd(a, b)
      [] op = "sub" -> IntSub(a, b)
      [] op = "mul" -> IntMul(a, b)
      [] op \in {"div", "quo"} -> IntFloorDiv(a, b)
      [] op = "rem" -> AlignedMod(a, b)

\* an arithmetic command with operands in the 32-bit range completes
ArithStep ==
    /\ ctl = "execute" /\ InRange /\ Fetch.cmd \in ArithOps
    /\ pointer' = IntAdd(pointer, One)
    /\ InI32(Reg(Arg(2))) /\ InI32(Reg(Arg(3)))

\* C2: an arithmetic command on operands in [-2^31, 2^31) writes a value in
\* [-2^31, 2^31) that is congruent modulo 2^32 to the exact result;
\* (2^31 - 1) + 1 gives -2^31, and doubling 1 thirty-one times prints
\* -2147483648.
C2_ArithmeticWraps ==
    /\ [][ ArithStep =>
             LET v == registers'[Ix(Arg(1))]
                 x == Exact(Fetch.cmd, Reg(Arg(2)), Reg(Arg(3)))
             IN  /\ InI32(v)
                 /\ IntMod(IntSub(v, x), TwoTo32) = Zero
                 /\ (Fetch.cmd = "add" /\ x = TwoTo31) => v = MinusTwoTo31
         ]_vars
    /\ []((commands = OverflowProgram /\ ctl = "done") => output = <<Line_MinInt>>)

\* add has computed (2^31 - 1) + 1
C2_Witness ==
    /\ ctl = "execute"
    /\ commands[3].cmd = "add"
    /\ pointer = Z(3)
    /\ registers[0] = IntSub(TwoTo31, One)
    /\ registers[1] = One
    /\ registers[2] = MinusTwoTo31

\* C3: initially the registers are 0 and the pointer is 0, and every
\* register always holds a value in [-2^31, 2^31).
C3_RegistersInRange ==
    /\ registers = [r \in 0..31 |-> Zero]
    /\ pointer = Zero
    /\ [](\A r \in 0..31 : InI32(registers[r]))

RuntimeFailures == {"ZeroDivisionError", "KeyError", "ValueError"}

\* C10: a division by zero, a load from an unwritten address or the read of
\* a line that is not an integer ends the run with a diagnostic on the
\* console's error channel.
C10_RuntimeDiagnostic ==
    (ctl = "raised" /\ exc \in RuntimeFailures) => error # <<>>

\* C11: a division by zero, a load from an unwritten address or the read of
\* a line that is not an integer ends the run: the failing command changes
\* no register, no memory cell and not the pointer, the output written
\* before it stays as it was, and no command runs after it.
C11_FailureIsFatal ==
    [][ /\ (ctl = "execute" /\ ctl' = "raised" /\ exc' \in RuntimeFailures)
            => UNCHANGED <<registers, mem, pointer, output>>
        /\ ctl # "raised"
      ]_vars

\* a load from an unwritten address has failed after a line was written
C11_Witness ==
    /\ ctl = "raised"
    /\ exc = "KeyError"
    /\ output # <<>>
    /\ registers[0] # Zero

\* rem has completed on operands in the 32-bit range, the divisor not 0
RemStep ==
    /\ ctl = "execute" /\ InRange /\ Fetch.cmd = "rem"
    /\ pointer' = IntAdd(pointer, One)
    /\ InI32(Reg(Arg(2))) /\ InI32(Reg(Arg(3)))
    /\ Reg(Arg(3)) # Zero

\* C12: on operands a and b in [-2^31, 2^31) with b not 0, rem writes a
\* value that is 0 or has the sign of the dividend a; -7 rem 2 is -1 and
\* 7 rem -2 is 1.
C12_RemSignOfDividend ==
    [][ RemStep =>
          LET a == Reg(Arg(2))
              b == Reg(Arg(3))
              v == registers'[Ix(Arg(1))]
          IN  /\ v = Zero \/ (a # Zero /\ IsNeg(v) = IsNeg(a))
              /\ (a = Z(-7) /\ b = Z(2)) => v = Z(-1)
              /\ (a = Z(7) /\ b = Z(-2)) => v = One
      ]_vars

\* -7 rem 2 has been computed and written
C12_Witness ==
    /\ commands[Len(commands) - 1].cmd = "rem"
    /\ registers[0] = Z(-7)
    /\ registers[1] = Z(2)
    /\ registers[2] = Z(-1)
    /\ output = <<Str(-1)>>

\* div or quo is about to run on operands in the 32-bit range, the divisor
\* not 0
DivStep ==
    /\ ctl = "execute" /\ InRange /\ Fetch.cmd \in {"div", "quo"}
    /\ ValidReg(Arg(1)) /\ ValidReg(Arg(2)) /\ ValidReg(Arg(3))
    /\ InI32(Reg(Arg(2))) /\ InI32(Reg(Arg(3)))
    /\ Reg(Arg(3)) # Zero

\* q is the quotient of a by b rounded toward negative infinity: the
\* remainder a - q * b lies between 0 and b
IsFloorQuotient(q, a, b) ==
    LET r == IntSub(a, IntMul(q, b))
    IN  IF IsNeg(b) THEN IntLt(b, r) /\ IntLe(r, Zero)
        ELSE IntLe(Zero, r) /\ IntLt(r, b)

\* C13: on operands a and b in [-2^31, 2^31) with b not 0, div writes the
\* quotient rounded toward negative infinity, wrapped to 32 bits (-7 div 2
\* is -4), and quo writes the same value and changes the state in the same
\* way: the destination register and the pointer, nothing else.
C13_DivFloors ==
    [][ DivStep =>
          LET a == Reg(Arg(2))
              b == Reg(Arg(3))
              v == registers'[Ix(Arg(1))]
          IN  /\ IF a = MinusTwoTo31 /\ b = Z(-1) THEN v = MinusTwoTo31
                  ELSE IsFloorQuotient(v, a, b)
              /\ (a = Z(-7) /\ b = Z(2)) => v = Z(-4)
              /\ \A r \in 0..31 : r # Ix(Arg(1)) => registers'[r] = registers[r]
              /\ pointer' = IntAdd(pointer, One)
              /\ ctl' = "execute"
              /\ UNCHANGED <<commands, mem, input, output, error>>
      ]_vars

\* quo has computed -7 quo 2 and the result has been written
C13_Witness ==
    /\ commands[Len(commands) - 1].cmd = "quo"
    /\ registers[0] = Z(-7)
    /\ registers[1] = Z(2)
    /\ registers[2] = Z(-4)
    /\ output = <<Str(-4)>>

\* a command has run to completion: the loop of execute goes on
Completes == ctl = "execute" /\ InRange /\ ctl' = "execute"

\* C14: every command other than j, jeqz and halt advances the pointer by
\* exactly 1; j sets the pointer to the value of its register; jeqz sets it
\* to the value of its address register when the tested register holds 0
\* and advances it by 1 otherwise; the target is the register's value, not
\* the operand, and j and jeqz change no register and no memory cell.
C14_PointerMoves ==
    [][ Completes =>
          /\ Fetch.cmd \notin {"j", "jeqz", "halt"}
                => pointer' = IntAdd(pointer, One)
          /\ Fetch.cmd = "j"
                => pointer' = registers[Ix(Arg(1))] /\ UNCHANGED <<registers, mem>>
          /\ Fetch.cmd = "jeqz"
                => /\ pointer' = IF registers[Ix(Arg(1))] = Zero
                                 THEN registers[Ix(Arg(2))]
                                 ELSE IntAdd(pointer, One)
                   /\ UNCHANGED <<registers, mem>>
      ]_vars

\* j has jumped to the value -7 of register 1, not to 1
C14_Witness ==
    /\ commands[3].cmd = "j"
    /\ commands[3].args = <<One>>
    /\ registers[1] = Z(-7)
    /\ pointer = Z(-7)

\* the program stores register 0 at the address in register 1 and then
\* loads register 2 from that address, and both commands have run
StoredThenLoaded ==
    /\ Len(commands) = 4
    /\ commands[3].cmd = "st"
    /\ commands[4].cmd = "ld"
    /\ ctl = "execute"
    /\ pointer = Z(4)

\* C15: st changes only the memory cell at the address held by its address
\* register, setting it to the value of its source register, and changes no
\* register; ld changes only its destination register, setting it to the
\* value stored at that address, and changes no memory cell; no other
\* command changes memory, so that a stored value is read back by a later
\* ld of the same address.
C15_MemoryFrame ==
    /\ [][ Completes =>
             /\ Fetch.cmd = "st"
                   => LET a == registers[Ix(Arg(2))]
                      IN  /\ DOMAIN mem' = DOMAIN mem \cup {a}
                          /\ mem'[a] = registers[Ix(Arg(1))]
                          /\ \A k \in DOMAIN mem : k # a => mem'[k] = mem[k]
                          /\ registers' = registers
             /\ Fetch.cmd = "ld"
                   => /\ registers'[Ix(Arg(1))] = mem[registers[Ix(Arg(2))]]
                      /\ \A r \in 0..31 :
                            r # Ix(Arg(1)) => registers'[r] = registers[r]
             /\ Fetch.cmd # "st" => mem' = mem
         ]_vars
    /\ [](StoredThenLoaded => registers[2] = registers[0])

\* -7 was stored at address 2^31 - 1 and has been loaded from there
C15_Witness ==
    /\ StoredThenLoaded
    /\ registers[0] = Z(-7)
    /\ registers[1] = IntSub(TwoTo31, One)
    /\ registers[2] = Z(-7)

\* s is the decimal representation of v: an optional minus sign for a
\* negative v only, then digits without a leading zero, of value v
IsDecimalOf(s, v) ==
    LET digits == IF s # <<>> /\ s[1] = "-" THEN Tail(s) ELSE s
    IN  /\ digits # <<>>
        /\ \A i \in 1..Len(digits) : IsDigit(digits[i])
        /\ digits[1] = "0" => Len(digits) = 1
        /\ (s[1] = "-") = IsNeg(v)
        /\ DigitsVal(digits) = IntAbs(v)

\* C16: each write appends the decimal representation of its register to
\* the console output as one line, in the order of execution; each read
\* takes the first input line not yet consumed and stores its integer
\* value in its register; no other command reads or writes the console.
C16_ConsoleTraffic ==
    [][ Completes =>
          /\ Fetch.cmd = "write"
                => /\ Len(output') = Len(output) + 1
                   /\ SubSeq(output', 1, Len(output)) = output
                   /\ IsDecimalOf(output'[Len(output')], registers[Ix(Arg(1))])
                   /\ input' = input
          /\ Fetch.cmd = "read"
                => /\ input # <<>>
                   /\ input' = Tail(input)
                   /\ IsDecimalOf(Head(input), registers'[Ix(Arg(1))])
                   /\ output' = output
          /\ Fetch.cmd \notin {"read", "write"} => UNCHANGED <<input, output>>
          /\ error' = error
      ]_vars

\* -7 and 2^31 - 1 were read in this order, and -7 and then 0 written
C16_Witness ==
    /\ ctl = "done"
    /\ input = <<>>
    /\ registers[0] = Z(-7)
    /\ registers[1] = IntSub(TwoTo31, One)
    /\ output = <<Str(-7), Str(0)>>

\* C38: on operands a and b in [-2^31, 2^31) with b not 0, the value rem
\* writes is congruent to the dividend modulo the divisor: b divides
\* (a rem b) - a.
C38_RemCongruent ==
    [][ RemStep =>
          IntMod(IntSub(registers'[Ix(Arg(1))], Reg(Arg(2))), Reg(Arg(3))) = Zero
      ]_vars

\* -7 rem -7 has been computed: operands of one sign give Python's modulus
SameSignRem ==
    /\ commands[3].cmd = "rem"
    /\ pointer = Z(3)
    /\ registers[0] = Z(-7)
    /\ registers[1] = Z(-7)
    /\ registers[2] = Zero

(***************************************************************************)
(* Interpreter(console).interpret(code) for SLIM texts and console inputs  *)
(* drawn from bounded sets.                                                *)
(***************************************************************************)
MaxLines == 2   \* lines of a generated SLIM text

SlimLines ==
    { <<" ", " ", ";", " ", "c">>,
      <<"a", "l", "l", "o", "c", "a", "t", "e", "-", "r", "e", "g", "i", "s", "t", "e", "r", "s", " ", "a", ",", " ", "b">>,
      <<"a", "l", "l", "o", "c", "a", "t", "e", "-", "r", "e", "g", "i", "s", "t", "e", "r", "s", " ", "b", " ", "c">>,
      <<"l", ":">>,
      <<"l", "i", " ", "a", ",", " ", "l">>,
      <<"l", "i", " ", "b", " ", "7">>,
      <<"w", "r", "i", "t", "e", " ", "a">>,
      <<"r", "e", "a", "d", " ", "b">>,
      <<"j", " ", "a">>,
      <<"j", "e", "q", "z", " ", "l", ",", " ", "a">>,
      <<"a", "d", "d", " ", "a", ",", " ", "b">>,
      <<"h", "a", "l", "t", " ", "a">>,
      <<"d", "o">>,
      <<"1", "x">> }

\* `do` on line 3 and `loop` on line 4
UnknownOpcodeText ==
    << <<"a", "l", "l", "o", "c", "a", "t", "e", "-", "r", "e", "g", "i", "s", "t", "e", "r", "s", " ", "a">>,
       <<"l", "i", " ", "a", ",", " ", "1", " ", ";", " ", "o", "n", "e">>,
       <<"d", "o">>,
       <<"l", "o", "o", "p">> >>

UnknownNameText == << <<"w", "r", "i", "t", "e", " ", "r", "e", "g">> >>

\* a text that runs every opcode when the console has a line to read
AllOpcodesText ==
    << <<"a", "l", "l", "o", "c", "a", "t", "e", "-", "r", "e", "g", "i", "s", "t", "e", "r", "s", " ", "a", ",", " ", "b", ",", " ", "c", ",", " ", "t">>,
       <<"r", "e", "a", "d", " ", "a">>,
       <<"l", "i", " ", "b", ",", " ", "3">>,
       <<"a", "d", "d", " ", "c", ",", " ", "a", ",", " ", "b">>,
       <<"s", "u", "b", " ", "c", ",", " ", "c", ",", " ", "b">>,
       <<"m", "u", "l", " ", "c", ",", " ", "c", ",", " ", "b">>,
       <<"d", "i", "v", " ", "c", ",", " ", "c", ",", " ", "b">>,
       <<"q", "u", "o", " ", "c", ",", " ", "c", ",", " ", "b">>,
       <<"r", "e", "m", " ", "c", ",", " ", "c", ",", " ", "b">>,
       <<"s", "e", "q", " ", "c", ",", " ", "a", ",", " ", "b">>,
       <<"s", "n", "e", " ", "c", ",", " ", "a", ",", " ", "b">>,
       <<"s", "l", "t", " ", "c", ",", " ", "a", ",", " ", "b">>,
       <<"s", "g", "t", " ", "c", ",", " ", "a", ",", " ", "b">>,
       <<"s", "l", "e", " ", "c", ",", " ", "a", ",", " ", "b">>,
       <<"s", "g", "e", " ", "c", ",", " ", "a", ",", " ", "b">>,
       <<"s", "t", " ", "a", ",", " ", "b">>,
       <<"l", "d", " ", "c", ",", " ", "b">>,
       <<"w", "r", "i", "t", "e", " ", "c">>,
       <<"l", "i", " ", "t", ",", " ", "e", "n", "d">>,
       <<"j", "e", "q", "z", " ", "c", ",", " ", "t">>,
       <<"j", " ", "t">>,
       <<"e", "n", "d", ":">>,
       <<"h", "a", "l", "t">> >>

\* commands with too few and too many arguments, and an unknown opcode
ArityText ==
    << <<"a", "l", "l", "o", "c", "a", "t", "e", "-", "r", "e", "g", "i", "s", "t", "e", "r", "s", " ", "a">>,
       <<"a", "d", "d", " ", "a", ",", " ", "q">>,
       <<"h", "a", "l", "t", " ", "a", ",", " ", "q">>,
       <<"m", "o", "v", " ", "q">>,
       <<"w", "r", "i", "t", "e">> >>

\* names in positions of the other role, and an unknown name
RoleText ==
    << <<"a", "l", "l", "o", "c", "a", "t", "e", "-", "r", "e", "g", "i", "s", "t", "e", "r", "s", " ", "a", ",", " ", "b">>,
       <<"l", ":">>,
       <<"l", "i", " ", "a", ",", " ", "l">>,
       <<"l", "i", " ", "a", ",", " ", "b">>,
       <<"j", " ", "l">>,
       <<"j", "e", "q", "z", " ", "a", ",", " ", "l">>,
       <<"a", "d", "d", " ", "q", ",", " ", "l", ",", " ", "a">> >>

\* l is allocated while the label l waits for its command
SharedNameText ==
    << <<"l", ":">>,
       <<"a", "l", "l", "o", "c", "a", "t", "e", "-", "r", "e", "g", "i", "s", "t", "e", "r", "s", " ", "l">>,
       <<"l", "i", " ", "l", ",", " ", "l">> >>

\* a jump to a label that ends the program
TrailingLabelText ==
    << <<"a", "l", "l", "o", "c", "a", "t", "e", "-", "r", "e", "g", "i", "s", "t", "e", "r", "s", " ", "a">>,
       <<"l", "i", " ", "a", ",", " ", "e", "n", "d">>,
       <<"j", " ", "a">>,
       <<"e", "n", "d", ":">> >>

\* the label l declared twice with no command between
DoubleLabelText == << <<"l", ":">>, <<"l", ":">>, <<"h", "a", "l", "t">> >>

\* labels in a row, kept from their command by a blank line, an allocation
\* and a comment
LabelRunText ==
    << <<"a", "l", "l", "o", "c", "a", "t", "e", "-", "r", "e", "g", "i", "s", "t", "e", "r", "s", " ", "a">>,
       <<"l", "i", " ", "a", ",", " ", "m">>,
       <<"l", ":">>,
       <<"m", ":">>,
       <<>>,
       <<"a", "l", "l", "o", "c", "a", "t", "e", "-", "r", "e", "g", "i", "s", "t", "e", "r", "s", " ", "b">>,
       <<" ", " ", ";", " ", "c">>,
       <<"h", "a", "l", "t">> >>

\* the names rlo .. rhi, a blank before each
RECURSIVE RegisterNames(_, _)
RegisterNames(lo, hi) ==
    IF lo > hi THEN <<>> ELSE <<" ", "r">> \o Str(lo) \o RegisterNames(lo + 1, hi)

\* 32 registers over two allocations, the last of them used
FullRegistersText ==
    << <<"a", "l", "l", "o", "c", "a", "t", "e", "-", "r", "e", "g", "i", "s", "t", "e", "r", "s">> \o RegisterNames(0, 15),
       <<"a", "l", "l", "o", "c", "a", "t", "e", "-", "r", "e", "g", "i", "s", "t", "e", "r", "s">> \o RegisterNames(16, 31),
       <<"l", "i", " ", "r", "3", "1", ",", " ", "5">>,
       <<"w", "r", "i", "t", "e", " ", "r", "3", "1">> >>

\* a label name, a 33rd and a 34th name, a name declared again, and a
\* further line once 32 registers exist
RegisterLimitText ==
    << <<"l", ":">>,
       <<"h", "a", "l", "t">>,
       <<"a", "l", "l", "o", "c", "a", "t", "e", "-", "r", "e", "g", "i", "s", "t", "e", "r", "s", " ", "l">> \o RegisterNames(0, 30),
       <<"a", "l", "l", "o", "c", "a", "t", "e", "-", "r", "e", "g", "i", "s", "t", "e", "r", "s", " ", "r", "3", "1", ",", " ", "a", ",", " ", "r", "0", ",", " ", "b">>,
       <<"a", "l", "l", "o", "c", "a", "t", "e", "-", "r", "e", "g", "i", "s", "t", "e", "r", "s", " ", "d">> >>

\* a register and a label used before the lines that declare them
ForwardText ==
    << <<"l", "i", " ", "a", ",", " ", "e", "n", "d">>,
       <<"j", " ", "a">>,
       <<"w", "r", "i", "t", "e", " ", "a">>,
       <<"a", "l", "l", "o", "c", "a", "t", "e", "-", "r", "e", "g", "i", "s", "t", "e", "r", "s", " ", "a">>,
       <<"e", "n", "d", ":">>,
       <<"h", "a", "l", "t">> >>

\* l is written before it is allocated, and allocated while the label l
\* waits for its command
ForwardSharedText ==
    << <<"w", "r", "i", "t", "e", " ", "l">>,
       <<"l", ":">>,
       <<"a", "l", "l", "o", "c", "a", "t", "e", "-", "r", "e", "g", "i", "s", "t", "e", "r", "s", " ", "l">>,
       <<"h", "a", "l", "t">> >>

\* ARG_SPLIT spelled with at most one comma, and runs with two commas
Separators == { <<" ">>, <<",">>, <<",", " ">>, <<" ", ",", " ">>, <<" ", " ">> }
ExtraCommas == { <<",", ",">>, <<",", " ", ",">>, <<" ", ",", ",", " ">> }

\* test_no_commas, test_extra_commas: a program that writes 3, its names
\* separated by s and its arguments by t
SepText(s, t) ==
    << <<"a", "l", "l", "o", "c", "a", "t", "e", "-", "r", "e", "g", "i", "s", "t", "e", "r", "s", " ", "a">> \o s \o <<"b">>,
       <<"l", "i", " ", "a">> \o t \o <<"1">>,
       <<"l", "i", " ", "b">> \o t \o <<"2">>,
       <<"a", "d", "d", " ", "a">> \o t \o <<"a">> \o t \o <<"b">>,
       <<"w", "r", "i", "t", "e", " ", "a">> >>
SepTexts == {SepText(s, t) : s \in Separators, t \in Separators \cup ExtraCommas}

\* integer literals in register positions
LiteralRegisterText == << <<"w", "r", "i", "t", "e", " ", "4", "0">> >>
LiteralIndexText == << <<"l", "i", " ", "3", "1", ",", " ", "2">>, <<"w", "r", "i", "t", "e", " ", "-", "1">> >>

Texts ==
    SeqsUpTo(SlimLines, MaxLines)
    \cup {UnknownOpcodeText, UnknownNameText, AllOpcodesText}
    \cup {ArityText, RoleText, SharedNameText, TrailingLabelText,
          LiteralRegisterText, LiteralIndexText, DoubleLabelText,
          LabelRunText, FullRegistersText, RegisterLimitText,
          ForwardText, ForwardSharedText}
    \cup SepTexts

InterpretInputs == { <<>>, << <<"5">> >> }

InitInterpret ==
    /\ code \in Texts
    /\ input \in InterpretInputs
    /\ output = <<>>
    /\ error = <<>>
    /\ commands = <<>>
    /\ registers = [r \in 0..31 |-> Zero]
    /\ mem = [k \in {} |-> Zero]
    /\ pointer = Zero
    /\ parsed_val = Unset
    /\ named_val = Unset
    /\ resolved_val = Unset
    /\ passes = <<>>
    /\ ctl = "parse"
    /\ exc = "none"
    /\ source = Module(<<>>)
    /\ python = PythonInit(Module(<<>>), <<>>)
    /\ debug = NoDebug
    /\ shadow = NoShadow

NextInterpret ==
    \/ interpret_parse \/ interpret_name \/ interpret_resolve
    \/ interpret_errors \/ interpret_execute
    \/ add \/ sub \/ mul \/ div \/ quo \/ rem
    \/ seq \/ sne \/ slt \/ sgt \/ sle \/ sge
    \/ ld \/ st \/ li \/ read \/ write \/ j \/ jeqz \/ halt
    \/ execute_exit

SpecInterpret == InitInterpret /\ [][NextInterpret]_vars

(***************************************************************************)
(* Properties of Interpreter.interpret                                     *)
(***************************************************************************)
PassOrder == <<"parse", "do_name", "resolve", "execute">>
IsPrefix(s, t) == Len(s) <= Len(t) /\ SubSeq(t, 1, Len(s)) = s
Ran(pass) == \E i \in 1..Len(passes) : passes[i] = pass
Ended == ctl \in {"done", "raised"}

\* C8: interpret calls parse, do_name, resolve and the VM in this order; once
\* a pass has returned a Failure no later pass is called, the VM executes
\* nothing (no output line is written, no input line is consumed), and when
\* interpret has ended the error channel holds exactly the messages of the
\* failing pass's errors, in list order; the VM runs only when all three
\* passes succeeded.
C8_PassOrder ==
    /\ [](IsPrefix(passes, PassOrder))
    /\ [](Ran("execute") =>
            IsSuccess(parsed_val) /\ IsSuccess(named_val) /\ IsSuccess(resolved_val))
    /\ [](IsFailure(named_val) => ~Ran("resolve"))
    /\ [](IsFailure(resolved_val) => ~Ran("execute") /\ output = <<>>)
    /\ [][IsFailure(named_val) \/ IsFailure(resolved_val) \/ IsFailure(resolved_val')
            => input' = input /\ output' = output /\ vmVars' = vmVars]_vars
    /\ []((Ended /\ IsFailure(resolved_val)) =>
            /\ Len(error) = Len(resolved_val.value)
            /\ \A i \in 1..Len(error) :
                  /\ HasMessage(resolved_val.value[i])
                  /\ error[i] = get_message(resolved_val.value[i]))

\* the errors resolve's visit reports for the i-th command of a named program
CommandErrors(prog, i) ==
    LET r == resolve_visit(prog, prog.lines[i])
    IN  IF IsFailure(r) THEN r.value ELSE <<>>

\* the number of errors of the commands before the i-th
RECURSIVE ErrorsBefore(_, _)
ErrorsBefore(prog, i) ==
    IF i = 1 THEN 0
    ELSE ErrorsBefore(prog, i - 1) + Len(CommandErrors(prog, i - 1))

\* the line-th source line is a command line with this opcode
IsCommandLine(line, cmd) ==
    /\ line \in 1..Len(code)
    /\ LET parsed == parse_visit(clean_line(code[line]), line)
       IN  IsSome(parsed) /\ parsed.value.type = "ParsedCommand" /\ parsed.value.cmd = cmd

Msg_UnknownOpcode_do == <<"U", "n", "k", "n", "o", "w", "n", " ", "o", "p", "c", "o", "d", "e", " ", "'", "d", "o", "'", " ", "i", "n", " ", "l", "i", "n", "e", " ", "3", ".">>
Msg_UnknownOpcode_loop == <<"U", "n", "k", "n", "o", "w", "n", " ", "o", "p", "c", "o", "d", "e", " ", "'", "l", "o", "o", "p", "'", " ", "i", "n", " ", "l", "i", "n", "e", " ", "4", ".">>
Msg_UnknownName_reg == <<"U", "n", "k", "n", "o", "w", "n", " ", "n", "a", "m", "e", " ", "'", "r", "e", "g", "'", " ", "i", "n", " ", "l", "i", "n", "e", " ", "1", ".">>

\* C9: resolve returns one error list holding the errors of every faulty
\* command, in command order, each with the source line number of its
\* command, and returns Success (one resolved command per command) only when
\* no command produced an error; `do` on line 3 and `loop` on line 4 give
\* exactly the two Unknown opcode messages and no output, and an undeclared
\* name `reg` on line 1 gives exactly `Unknown name 'reg' in line 1.`.
C9_ResolveAccumulates ==
    /\ Ran("resolve") =>
          LET prog == named_val.value
              n == Len(prog.lines)
              total == ErrorsBefore(prog, n + 1)
          IN  /\ IsSuccess(resolved_val) <=> total = 0
              /\ IsFailure(resolved_val) <=> total > 0
              /\ total = 0 => Len(resolved_val.value) = n
              /\ total > 0 =>
                    /\ Len(resolved_val.value) = total
                    /\ \A i \in 1..n : \A q \in 1..Len(CommandErrors(prog, i)) :
                          LET e == resolved_val.value[ErrorsBefore(prog, i) + q]
                          IN  /\ e = CommandErrors(prog, i)[q]
                              /\ e.line = prog.lines[i].line
                              /\ IsCommandLine(e.line, prog.lines[i].cmd)
    /\ (code = UnknownOpcodeText /\ Ended) =>
          /\ error = <<Msg_UnknownOpcode_do, Msg_UnknownOpcode_loop>>
          /\ output = <<>>
          /\ ctl = "done"
    /\ (code = UnknownNameText /\ Ended) =>
          /\ error = <<Msg_UnknownName_reg>>
          /\ output = <<>>
          /\ ctl = "done"

\* resolve has reported the errors of two commands of one text
C9_Witness ==
    /\ code = UnknownOpcodeText
    /\ Ended
    /\ IsFailure(resolved_val)
    /\ Len(resolved_val.value) = 2
    /\ Len(error) = 2

\* the number of arguments an opcode takes, -1 for a word that is no opcode
OpcodeArity(cmd) ==
    IF cmd \in {<<"a", "d", "d">>, <<"s", "u", "b">>, <<"m", "u", "l">>, <<"d", "i", "v">>, <<"q", "u", "o">>, <<"r", "e", "m">>,
                <<"s", "e", "q">>, <<"s", "n", "e">>, <<"s", "l", "t">>, <<"s", "g", "t">>, <<"s", "l", "e">>, <<"s", "g", "e">>} THEN 3
    ELSE IF cmd \in {<<"l", "d">>, <<"s", "t">>, <<"l", "i">>, <<"j", "e", "q", "z">>} THEN 2
    ELSE IF cmd \in {<<"r", "e", "a", "d">>, <<"w", "r", "i", "t", "e">>, <<"j">>} THEN 1
    ELSE IF cmd = <<"h", "a", "l", "t">> THEN 0
    ELSE -1

\* the errors resolve has reported for the command of a source line
ErrorsOfLine(line) ==
    IF IsFailure(resolved_val)
    THEN SelectSeq(resolved_val.value, LAMBDA e : e.line = line)
    ELSE <<>>

Msg_Missing_2 == <<"M", "i", "s", "s", "i", "n", "g", " ", "a", "r", "g", "u", "m", "e", "n", "t", " ", "i", "n", " ", "l", "i", "n", "e", " ", "2", ".">>
Msg_TooMany_3 == <<"T", "o", "o", " ", "m", "a", "n", "y", " ", "a", "r", "g", "u", "m", "e", "n", "t", "s", " ", "i", "n", " ", "l", "i", "n", "e", " ", "3", ".">>
Msg_UnknownOpcode_mov == <<"U", "n", "k", "n", "o", "w", "n", " ", "o", "p", "c", "o", "d", "e", " ", "'", "m", "o", "v", "'", " ", "i", "n", " ", "l", "i", "n", "e", " ", "4", ".">>
Msg_Missing_5 == <<"M", "i", "s", "s", "i", "n", "g", " ", "a", "r", "g", "u", "m", "e", "n", "t", " ", "i", "n", " ", "l", "i", "n", "e", " ", "5", ".">>

\* C17: a command with a known opcode and fewer arguments than the opcode
\* takes gets exactly one MissingArgument error (`Missing argument in line
\* <n>.`), one with more arguments exactly one TooManyArguments error (`Too
\* many arguments in line <n>.`), and no error about its arguments; a
\* command with an unknown opcode gets exactly the UnknownOpcode error,
\* whatever its arguments.
C17_ArityErrors ==
    /\ Ran("resolve") =>
          \A i \in 1..Len(named_val.value.lines) :
              LET c == named_val.value.lines[i]
                  arity == OpcodeArity(c.cmd)
                  errs == ErrorsOfLine(c.line)
              IN  /\ (arity >= 0 /\ Len(c.args) < arity) =>
                        /\ errs = <<MissingArgumentError(c.line)>>
                        /\ get_message(errs[1]) =
                              <<"M", "i", "s", "s", "i", "n", "g", " ", "a", "r", "g", "u", "m", "e", "n", "t", " ", "i", "n", " ", "l", "i", "n", "e", " ">> \o Str(c.line) \o <<".">>
                  /\ (arity >= 0 /\ Len(c.args) > arity) =>
                        /\ errs = <<TooManyArgumentsError(c.line)>>
                        /\ get_message(errs[1]) =
                              <<"T", "o", "o", " ", "m", "a", "n", "y", " ", "a", "r", "g", "u", "m", "e", "n", "t", "s", " ", "i", "n", " ", "l", "i", "n", "e", " ">> \o Str(c.line) \o <<".">>
                  /\ arity < 0 => errs = <<UnknownOpcodeError(c.cmd, c.line)>>
    /\ (code = ArityText /\ Ended) =>
          /\ error = <<Msg_Missing_2, Msg_TooMany_3, Msg_UnknownOpcode_mov, Msg_Missing_5>>
          /\ ctl = "done"

\* the four faulty commands of one text have been reported
C17_Witness ==
    /\ code = ArityText
    /\ Ended
    /\ Len(resolved_val.value) = 4
    /\ error[1] = Msg_Missing_2
    /\ error[2] = Msg_TooMany_3

\* the role of the k-th argument of an opcode: the second argument of li is
\* the immediate (label) position, every other argument is a register
RoleAt(cmd, k) == IF cmd = <<"l", "i">> /\ k = 2 THEN "Label" ELSE "Register"

\* an argument that is an integer literal
IsLiteralArg(word) ==
    /\ word # <<>>
    /\ \A k \in 1..Len(word) : IsDigit(word[k]) \/ (k = 1 /\ word[k] = "-")
    /\ word # <<"-">>

\* the errors of one non-literal argument; a name that is both a register
\* and a label is taken as the one named by first
ArgErrors(prog, word, role, line, first) ==
    LET as_register == IF role = "Register" THEN <<>>
                       ELSE <<ExpectedLabelError(word, line)>>
        as_label == IF role = "Label" THEN <<>>
                    ELSE <<ExpectedRegisterError(word, line)>>
        is_register == word \in DOMAIN prog.registers
        is_label == word \in DOMAIN prog.labels
    IN  IF IsLiteralArg(word) THEN <<>>
        ELSE IF is_register /\ is_label
        THEN IF first = "register" THEN as_register ELSE as_label
        ELSE IF is_register THEN as_register
        ELSE IF is_label THEN as_label
        ELSE <<UnknownNameError(word, line)>>

\* the argument errors of a command, in argument order
RECURSIVE LineErrors(_, _, _, _)
LineErrors(prog, c, k, first) ==
    IF k > Len(c.args) THEN <<>>
    ELSE ArgErrors(prog, c.args[k], RoleAt(c.cmd, k), c.line, first)
         \o LineErrors(prog, c, k + 1, first)

\* the value of an argument that resolves: the slot of a register, the
\* command index of a label
ArgValue(prog, word) ==
    IF IsLiteralArg(word) THEN StrInt(word)
    ELSE IF word \in DOMAIN prog.registers THEN Z(prog.registers[word])
    ELSE Z(prog.labels[word])

\* resolve has treated every command with the right number of arguments
\* as the rules say, a name of both kinds being taken as first says
ArgumentsFollowRules(first) ==
    Ran("resolve") =>
        LET prog == named_val.value
        IN  \A i \in 1..Len(prog.lines) :
                LET c == prog.lines[i]
                IN  OpcodeArity(c.cmd) = Len(c.args) =>
                      /\ ErrorsOfLine(c.line) = LineErrors(prog, c, 1, first)
                      /\ IsSuccess(resolved_val) =>
                            \A k \in 1..Len(c.args) :
                                resolved_val.value[i].args[k] = ArgValue(prog, c.args[k])

\* C18: a declared register name resolves to its slot in a register
\* position and gives ExpectedLabelError in the immediate position of li; a
\* declared label name resolves to its command index in the immediate
\* position of li and gives ExpectedRegisterError in every register
\* position; a name of neither kind gives UnknownNameError; the argument
\* errors of one command are reported together, in argument order.
C18_ArgumentRoles == ArgumentsFollowRules("register") /\ ArgumentsFollowRules("label")

\* C19: when resolve returns Success, every resolved argument in a register
\* position is in [0, 32) and every resolved argument in the immediate
\* position of li is at most the number of commands, for names and for
\* integer literals alike.
C19_ResolvedInRange ==
    (Ran("resolve") /\ IsSuccess(resolved_val)) =>
        \A i \in 1..Len(resolved_val.value) :
            LET c == named_val.value.lines[i]
                args == resolved_val.value[i].args
            IN  \A k \in 1..Len(args) :
                    IF RoleAt(c.cmd, k) = "Register"
                    THEN IntLe(Zero, args[k]) /\ IntLt(args[k], Z(32))
                    ELSE IntLe(args[k], Z(Len(resolved_val.value)))

\* the label of the i-th parsed line is followed by labels, allocations
\* and blank lines only
IsTrailingLabel(parsed, i) ==
    /\ parsed[i].type = "ParsedLabel"
    /\ \A k \in (i + 1)..Len(parsed) : parsed[k].type # "ParsedCommand"

\* C20: a label that is followed only by more labels or by the end of the
\* program is in the label map of the named program, with the number of
\* commands as its index, so that loading it with li and jumping to it
\* ends the run of the VM.
C20_TrailingLabel ==
    /\ (Ran("do_name") /\ IsSuccess(named_val)) =>
          \A i \in 1..Len(parsed_val.value) :
              IsTrailingLabel(parsed_val.value, i) =>
                  LET l == parsed_val.value[i].name
                      prog == named_val.value
                  IN  /\ l \in DOMAIN prog.labels
                      /\ prog.labels[l] = Len(prog.lines)
    /\ (code = TrailingLabelText /\ Ended) =>
          /\ Ran("execute")
          /\ ctl = "done"
          /\ error = <<>>

\* do_name has returned a named program
Named == Ran("do_name") /\ IsSuccess(named_val)

\* C21: in every named program returned as Success no name is both a key
\* of registers and a key of labels.
C21_DisjointNames ==
    Named => DOMAIN named_val.value.registers \cap DOMAIN named_val.value.labels = {}

\* the parsed lines first < second are label lines of the same name
SameLabel(first, second) ==
    /\ first < second
    /\ parsed_val.value[first].type = "ParsedLabel"
    /\ parsed_val.value[second].type = "ParsedLabel"
    /\ parsed_val.value[first].name = parsed_val.value[second].name

\* C22: when two label lines declare the same name, do_name returns a
\* Failure that holds a LabelInUseError for the second declaration.
C22_DoubleLabel ==
    Ran("do_name") =>
        \A first, second \in 1..Len(parsed_val.value) :
            SameLabel(first, second) =>
                /\ IsFailure(named_val)
                /\ \E k \in 1..Len(named_val.value) :
                      named_val.value[k] = LabelInUseError(parsed_val.value[second].name,
                                                           parsed_val.value[second].line)

\* what the line-th source line parses to
SourceLine(line) == parse_visit(clean_line(code[line]), line)
IsCommandRecord(x) == IsSome(x) /\ x.value.type = "ParsedCommand"
\* the command lines of the input, in source order
SourceCommands ==
    SelectSeq([line \in 1..Len(code) |-> SourceLine(line)], IsCommandRecord)
\* the command c of a named program is the command line x of the input
IsCommand(c, x) ==
    /\ c.cmd = x.value.cmd
    /\ Len(c.args) = Len(x.value.args)
    /\ c.line = x.value.line
\* the resolved command c is the command line x of the input
IsResolved(c, x) ==
    /\ InCommands(x.value.cmd)
    /\ c.cmd = Command(x.value.cmd).name
    /\ Len(c.args) = Len(x.value.args)
SameCommands(lines, cmds) ==
    /\ Len(lines) = Len(cmds)
    /\ \A k \in 1..Len(lines) : IsCommand(lines[k], cmds[k])
SameResolved(lines, cmds) ==
    /\ Len(lines) = Len(cmds)
    /\ \A k \in 1..Len(lines) : IsResolved(lines[k], cmds[k])

\* C23: a named program and a resolved program hold exactly the commands of
\* the input in source order: the k-th command line is the k-th command,
\* with its opcode and its number of arguments.  (Stated where do_name and
\* resolve have just returned; their values do not change afterwards.)
C23_OrderPreserved ==
    /\ (ctl = "resolve" /\ Named) => SameCommands(named_val.value.lines, SourceCommands)
    /\ (ctl = "branch" /\ Ran("resolve") /\ IsSuccess(resolved_val)) =>
          SameResolved(resolved_val.value, SourceCommands)

\* a text with a comment, an allocation and a label between its commands has
\* been resolved
C23_Witness ==
    /\ Ran("resolve") /\ IsSuccess(resolved_val)
    /\ code = AllOpcodesText
    /\ resolved_val.value[21].cmd = "halt"
    /\ resolved_val.value[1].cmd = "read"

RecoverableErrors ==
    {"RegisterInUseError", "LabelInUseError", "NoMoreRegistersError",
     "ExpectedRegisterError", "ExpectedLabelError", "UnknownOpcodeError",
     "MissingArgumentError", "TooManyArgumentsError", "UnknownNameError"}

\* C24: when a pass has returned a Failure whose errors are of the
\* recoverable kinds, interpret ends normally with one message per error on
\* the error channel.
C24_ErrorsReported ==
    (Ended /\ IsFailure(resolved_val)
           /\ \A i \in 1..Len(resolved_val.value) :
                 resolved_val.value[i].type \in RecoverableErrors) =>
        ctl = "done" /\ Len(error) = Len(resolved_val.value)

\* the source lines that match none of the parser's three rules
UnparseableLines ==
    {line \in 1..Len(code) : IsRaised(SourceLine(line))}

\* C25: parse reports every unparseable line as an error that carries its
\* source line number and returns a Failure with one error per such line.
C25_ParseErrors ==
    (Ran("parse") /\ UnparseableLines # {}) =>
        /\ IsFailure(parsed_val)
        /\ Len(parsed_val.value) = Cardinality(UnparseableLines)
        /\ \A line \in UnparseableLines :
              \E k \in 1..Len(parsed_val.value) : parsed_val.value[k].line = line

IsPrefixOf(s, t) == Len(s) <= Len(t) /\ SubSeq(t, 1, Len(s)) = s
IsSuffixOf(s, t) == Len(s) <= Len(t) /\ SubSeq(t, Len(t) - Len(s) + 1, Len(t)) = s

\* the parsed record r is what the raw line r.line of the text says
AtItsLine(r) ==
    /\ r.line \in 1..Len(code)
    /\ LET raw == clean_line(code[r.line])
       IN  CASE r.type = "ParsedLabel" -> raw = r.name \o <<":">>
             [] r.type = "ParsedAlloc" ->
                    IsPrefixOf(AllocateRegisters, raw) /\ IsSuffixOf(r.names[Len(r.names)], raw)
             [] r.type = "ParsedCommand" ->
                    /\ IsPrefixOf(r.cmd, raw)
                    /\ r.args # <<>> => IsSuffixOf(r.args[Len(r.args)], raw)

\* the error e of the namer or the resolver is about the raw line e.line
ErrorAtItsLine(e) ==
    /\ e.line \in 1..Len(code)
    /\ IsSome(SourceLine(e.line))
    /\ LET r == SourceLine(e.line).value
       IN  CASE e.type \in {"RegisterInUseError", "NoMoreRegistersError"} ->
                    r.type = "ParsedAlloc" /\ e.name \in Elems(r.names)
             [] e.type = "LabelInUseError" ->
                    r.type = "ParsedLabel" /\ e.name = r.name
             [] e.type = "UnknownOpcodeError" ->
                    r.type = "ParsedCommand" /\ e.name = r.cmd
             [] e.type \in {"UnknownNameError", "ExpectedRegisterError", "ExpectedLabelError"} ->
                    r.type = "ParsedCommand" /\ e.name \in Elems(r.args)
             [] e.type = "MissingArgumentError" ->
                    r.type = "ParsedCommand" /\ Len(r.args) < OpcodeArity(r.cmd)
             [] e.type = "TooManyArgumentsError" ->
                    r.type = "ParsedCommand" /\ Len(r.args) > OpcodeArity(r.cmd)

\* C26: every parsed record carries the 1-based index of its raw line,
\* blank and comment lines counted; the records are in source order; every
\* error of the namer and the resolver carries the index of the raw line it
\* is about, and a message written ends with that index.  (Stated where
\* each pass has just returned.)
C26_LineNumbers ==
    /\ (ctl = "name" /\ IsSuccess(parsed_val)) =>
          /\ \A k \in 1..Len(parsed_val.value) : AtItsLine(parsed_val.value[k])
          /\ \A k \in 2..Len(parsed_val.value) :
                parsed_val.value[k - 1].line < parsed_val.value[k].line
    /\ (ctl = "resolve" /\ IsFailure(named_val)) =>
          \A k \in 1..Len(named_val.value) : ErrorAtItsLine(named_val.value[k])
    /\ (ctl = "branch" /\ Ran("resolve") /\ IsFailure(resolved_val)) =>
          \A k \in 1..Len(resolved_val.value) : ErrorAtItsLine(resolved_val.value[k])
    /\ (Ended /\ IsFailure(resolved_val)) =>
          \A k \in 1..Len(error) :
              IsSuffixOf(<<" ", "i", "n", " ", "l", "i", "n", "e", " ">> \o Str(resolved_val.value[k].line) \o <<".">>, error[k])

\* an unknown opcode on the line after a comment line has been reported
C26_Witness ==
    /\ code = << <<" ", " ", ";", " ", "c">>, <<"d", "o">> >>
    /\ Ended
    /\ error = << <<"U", "n", "k", "n", "o", "w", "n", " ", "o", "p", "c", "o", "d", "e", " ", "'", "d", "o", "'", " ", "i", "n", " ", "l", "i", "n", "e", " ", "2", ".">> >>

\* the program of SepText with a comma and a space between its names and
\* between its arguments
CommaText == SepText(<<",", " ">>, <<",", " ">>)

\* C27: names and arguments separated by whitespace alone or by one comma
\* with optional whitespace around it parse to the same lists, and so do
\* arguments with redundant commas between them: the program parses to what
\* the comma-separated one parses to and runs as it does, writing 3.
C27_Separators ==
    (code \in SepTexts /\ Ran("parse")) =>
        /\ parsed_val = parse(CommaText)
        /\ Ended => ctl = "done" /\ output = <<Str(3)>> /\ error = <<>>

\* the program written with whitespace only has run and written 3
C27_Witness ==
    /\ code = SepText(<<" ">>, <<" ">>)
    /\ ctl = "done"
    /\ output = <<Str(3)>>

\* the program with two commas between its arguments has run and written 3
ExtraCommasRun ==
    /\ code = SepText(<<",">>, <<" ", ",", ",", " ">>)
    /\ ctl = "done"
    /\ output = <<Str(3)>>

IsParsedCommand(x) == x.type = "ParsedCommand"
\* the number of commands among the first i parsed lines
CommandsBefore(parsed, i) == Len(SelectSeq(SubSeq(parsed, 1, i), IsParsedCommand))
\* the i-th parsed line is a label and a command comes after it
IsLeadingLabel(parsed, i) ==
    /\ parsed[i].type = "ParsedLabel"
    /\ \E k \in (i + 1)..Len(parsed) : parsed[k].type = "ParsedCommand"

\* C31: in a named program returned as Success, every label that a command
\* follows maps to the 0-based index, counting commands only, of the first
\* command after it, whatever labels, blank lines and allocations stand
\* between the two.
C31_LabelIndex ==
    Named =>
        \A i \in 1..Len(parsed_val.value) :
            IsLeadingLabel(parsed_val.value, i) =>
                /\ parsed_val.value[i].name \in DOMAIN named_val.value.labels
                /\ named_val.value.labels[parsed_val.value[i].name]
                      = CommandsBefore(parsed_val.value, i)

\* two labels in a row, kept from the second command by a blank line, an
\* allocation and a comment, both name that command
C31_Witness ==
    /\ Named
    /\ code = LabelRunText
    /\ named_val.value.labels[<<"l">>] = 1
    /\ named_val.value.labels[<<"m">>] = 1
    /\ Len(named_val.value.lines) = 2

\* the namer after the first k parsed lines and the first m names of the
\* next one
NamerAfter(parsed, k, m) ==
    LET ns == name_lines(NamerInit, parsed, 1, k)
    IN  IF m = 0 THEN ns ELSE alloc_names(ns, parsed[k + 1].names, parsed[k + 1].line, 1, m)

\* slots 0 .. n-1, each given once, and at most 32 of them
IsSlotMap(regs) ==
    /\ Cardinality(DOMAIN regs) <= 32
    /\ {regs[r] : r \in DOMAIN regs} = 0..(Cardinality(DOMAIN regs) - 1)
    /\ \A r, s \in DOMAIN regs : regs[r] = regs[s] => r = s

\* what declaring name on line does to the namer
Declared(before, after, name, line) ==
    IF name \in DOMAIN before.registers \/ name \in DOMAIN before.labels
    THEN /\ after.registers = before.registers
         /\ after.labels = before.labels
         /\ after.errors = before.errors \o <<RegisterInUseError(name, line)>>
    ELSE IF Cardinality(DOMAIN before.registers) = 32
    THEN /\ after.registers = before.registers
         /\ after.labels = before.labels
         /\ after.errors = before.errors \o <<NoMoreRegistersError(name, line)>>
    ELSE /\ DOMAIN after.registers = DOMAIN before.registers \cup {name}
         /\ after.registers[name] = Cardinality(DOMAIN before.registers)
         /\ \A r \in DOMAIN before.registers : after.registers[r] = before.registers[r]
         /\ after.labels = before.labels
         /\ after.errors = before.errors

\* C32: after every prefix of the input the register map of the namer gives
\* the slots 0 .. n-1, n <= 32, each once; every declared name is given the
\* next slot in declaration order, or RegisterInUseError when it is in one
\* of the two maps, or NoMoreRegistersError when 32 registers exist, the
\* maps being left alone in both cases; and the errors of all names and all
\* lines are in the result.  (Stated where do_name has just returned.)
C32_RegisterSlots ==
    (ctl = "resolve" /\ Ran("do_name")) =>
        LET parsed == parsed_val.value
            last == NamerAfter(parsed, Len(parsed), 0)
        IN  /\ \A k \in 0..(Len(parsed) - 1) :
                  /\ IsSlotMap(NamerAfter(parsed, k, 0).registers)
                  /\ parsed[k + 1].type = "ParsedAlloc" =>
                        \A m \in 1..Len(parsed[k + 1].names) :
                            /\ IsSlotMap(NamerAfter(parsed, k, m).registers)
                            /\ Declared(NamerAfter(parsed, k, m - 1), NamerAfter(parsed, k, m),
                                        parsed[k + 1].names[m], parsed[k + 1].line)
            /\ IsSlotMap(last.registers)
            /\ IF last.errors = <<>>
               THEN IsSuccess(named_val) /\ named_val.value.registers = last.registers
               ELSE IsFailure(named_val) /\ named_val.value = last.errors

\* 31 names are declared after a name that is a label; the 32nd fills the
\* map, and the names after it and on the next line are each reported
C32_Witness ==
    /\ code = RegisterLimitText
    /\ Ran("do_name")
    /\ IsFailure(named_val)
    /\ named_val.value = << RegisterInUseError(<<"l">>, 3),
                            NoMoreRegistersError(<<"a">>, 4),
                            RegisterInUseError(<<"r", "0">>, 4),
                            NoMoreRegistersError(<<"b">>, 4),
                            NoMoreRegistersError(<<"d">>, 5) >>

\* 32 registers declared on two lines, the last one in slot 31
FullRegistersRun ==
    /\ code = FullRegistersText
    /\ Named
    /\ Cardinality(DOMAIN named_val.value.registers) = 32
    /\ named_val.value.registers[<<"r", "3", "1">>] = 31
    /\ output = <<Str(5)>>

IsParsedAlloc(x) == x.type = "ParsedAlloc"
IsNoAlloc(x) == x.type # "ParsedAlloc"
\* the parsed lines with every allocation moved before the first command,
\* each line keeping its line number
Hoisted(parsed) == SelectSeq(parsed, IsParsedAlloc) \o SelectSeq(parsed, IsNoAlloc)
\* the parsed lines that declare the label name
Declaring(parsed, name) ==
    {k \in 1..Len(parsed) : parsed[k].type = "ParsedLabel" /\ parsed[k].name = name}

\* C40: what a name resolves to does not depend on where it is declared: a
\* text is named and resolved as the text with its allocations moved before
\* its commands is, and an argument that names a label resolves to the index
\* of the command after the label line, be that line before or after the
\* command.  (Stated where resolve has just returned.)
C40_PositionFree ==
    (ctl = "branch" /\ Ran("do_name")) =>
        LET early == do_name(Hoisted(parsed_val.value))
        IN  /\ IsSuccess(named_val) <=> IsSuccess(early)
            /\ (IsSuccess(named_val) /\ IsSuccess(early)) =>
                  resolved_val = resolve(early.value)
            /\ IsSuccess(resolved_val) =>
                  \A i \in 1..Len(resolved_val.value) :
                      LET c == named_val.value.lines[i]
                      IN  \A k \in 1..Len(c.args) :
                              \A d \in Declaring(parsed_val.value, c.args[k]) :
                                  RoleAt(c.cmd, k) = "Label" =>
                                      resolved_val.value[i].args[k]
                                          = Z(CommandsBefore(parsed_val.value, d))

\* a register allocated on line 4 and a label declared on line 5 are used
\* on lines 1 to 3, and the program has run
ForwardRun ==
    /\ code = ForwardText
    /\ ctl = "done"
    /\ resolved_val.value[1].args = <<Z(0), Z(3)>>
    /\ resolved_val.value[3].args = <<Z(0)>>

(***************************************************************************)
(* Scripts: ast.parse of the texts do_test_script is given                 *)
(***************************************************************************)
\* test_recursion: factorial by recursion
FactScript(n) ==
    Module(<<FunctionDef(<<"f", "a", "c", "t">>, <<<<"x">>>>, <<If(Compare(Name(<<"x">>), <<"Eq">>,
            <<Constant(Z(1))>>), <<Return(Constant(Z(1)))>>, <<Return(BinOp(Name(<<"x">>),
            "Mult", Call(Name(<<"f", "a", "c", "t">>), <<BinOp(Name(<<"x">>), "Sub", Constant(Z(1)))>>)))>>)>>),
            Expr(Call(Name(<<"p", "r", "i", "n", "t">>), <<Call(Name(<<"i", "n", "t">>), <<Call(Name(<<"f", "a", "c", "t">>),
            <<Constant(Z(n))>>)>>)>>))>>)

\* test_multiple_recursion: two recursive calls in one expression
FibScript(n) ==
    Module(<<FunctionDef(<<"f", "i", "b">>, <<<<"x">>>>, <<If(Compare(Name(<<"x">>), <<"LtE">>,
            <<Constant(Z(1))>>), <<Return(Name(<<"x">>))>>, <<Return(BinOp(Call(Name(<<"f", "i", "b">>),
            <<BinOp(Name(<<"x">>), "Sub", Constant(Z(1)))>>), "Add", Call(Name(<<"f", "i", "b">>),
            <<BinOp(Name(<<"x">>), "Sub", Constant(Z(2)))>>)))>>)>>), Expr(Call(Name(<<"p", "r", "i", "n", "t">>),
            <<Call(Name(<<"i", "n", "t">>), <<Call(Name(<<"f", "i", "b">>), <<Constant(Z(n))>>)>>)>>))>>)

\* test_multiple_recursion_x: double recursion on two parameters
ChooseScript(n, k) ==
    Module(<<FunctionDef(<<"c", "h", "o", "o", "s", "e">>, <<<<"n">>, <<"k">>>>, <<If(Compare(Name(<<"k">>),
            <<"Eq">>, <<Constant(Z(0))>>), <<Return(Constant(Z(1)))>>, <<If(Compare(Name(<<"k">>),
            <<"Eq">>, <<Name(<<"n">>)>>), <<Return(Constant(Z(1)))>>, <<Return(BinOp(Call(Name(<<"c", "h", "o", "o", "s", "e">>),
            <<BinOp(Name(<<"n">>), "Sub", Constant(Z(1))), BinOp(Name(<<"k">>), "Sub",
            Constant(Z(1)))>>), "Add", Call(Name(<<"c", "h", "o", "o", "s", "e">>), <<BinOp(Name(<<"n">>),
            "Sub", Constant(Z(1))), Name(<<"k">>)>>)))>>)>>)>>), Expr(Call(Name(<<"p", "r", "i", "n", "t">>),
            <<Call(Name(<<"i", "n", "t">>), <<Call(Name(<<"c", "h", "o", "o", "s", "e">>), <<Constant(Z(n)), Constant(Z(k))>>)>>)>>))>>)

\* test_boolop_complex
BoolScript ==
    Module(<<Expr(Call(Name(<<"p", "r", "i", "n", "t">>), <<Call(Name(<<"i", "n", "t">>), <<UnaryOp("Not",
            BoolOp("Or", <<BoolOp("And", <<Constant(Z(12)), Constant(Z(34))>>),
            Constant(Z(0))>>))>>)>>))>>)

\* test_binop_complex
BinopScript ==
    Module(<<Expr(Call(Name(<<"p", "r", "i", "n", "t">>), <<Call(Name(<<"i", "n", "t">>), <<BinOp(BinOp(Constant(Z(12)),
            "Add", Constant(Z(34))), "Sub", BinOp(BinOp(Constant(Z(56)), "Mult",
            Constant(Z(78))), "FloorDiv", Constant(Z(90))))>>)>>))>>)

\* test_continue, with a shorter loop
ContinueScript ==
    Module(<<Assign(<<Name(<<"x">>)>>, Constant(Z(0))), While(Compare(Name(<<"x">>),
            <<"Lt">>, <<Constant(Z(4))>>), <<AugAssign(Name(<<"x">>), "Add", Constant(Z(1))),
            If(Compare(BinOp(Name(<<"x">>), "Mod", Constant(Z(2))), <<"Eq">>, <<Constant(Z(0))>>),
            <<Continue>>, <<>>), Expr(Call(Name(<<"p", "r", "i", "n", "t">>), <<Call(Name(<<"i", "n", "t">>),
            <<Name(<<"x">>)>>)>>))>>)>>)

\* test_break, with a shorter loop
BreakScript ==
    Module(<<Assign(<<Name(<<"x">>)>>, Constant(Z(0))), While(Constant(Z(1)), <<Expr(Call(Name(<<"p", "r", "i", "n", "t">>),
            <<Call(Name(<<"i", "n", "t">>), <<Name(<<"x">>)>>)>>)), AugAssign(Name(<<"x">>),
            "Add", Constant(Z(1))), If(Compare(Name(<<"x">>), <<"Gt">>, <<Constant(Z(2))>>),
            <<Break>>, <<>>)>>)>>)

\* test_walrus, with a shorter loop
WalrusScript ==
    Module(<<Assign(<<Name(<<"x">>)>>, Constant(Z(0))), While(Compare(NamedExpr(Name(<<"x">>),
            BinOp(Name(<<"x">>), "Add", Constant(Z(1)))), <<"Lt">>, <<Constant(Z(3))>>),
            <<Expr(Call(Name(<<"p", "r", "i", "n", "t">>), <<Call(Name(<<"i", "n", "t">>), <<Name(<<"x">>)>>)>>))>>)>>)

\* every binary operator and comparison on a value read from the console
OperatorsScript ==
    Module(<<Assign(<<Name(<<"a">>)>>, Call(Name(<<"i", "n", "t">>), <<Call(Name(<<"i", "n", "p", "u", "t">>),
            <<>>)>>)), Expr(Call(Name(<<"p", "r", "i", "n", "t">>), <<Call(Name(<<"i", "n", "t">>), <<BinOp(Name(<<"a">>),
            "Add", Constant(Z(3)))>>)>>)), Expr(Call(Name(<<"p", "r", "i", "n", "t">>), <<Call(Name(<<"i", "n", "t">>),
            <<BinOp(Name(<<"a">>), "Sub", Constant(Z(5)))>>)>>)), Expr(Call(Name(<<"p", "r", "i", "n", "t">>),
            <<Call(Name(<<"i", "n", "t">>), <<BinOp(Name(<<"a">>), "Mult", Constant(Z(7)))>>)>>)),
            Expr(Call(Name(<<"p", "r", "i", "n", "t">>), <<Call(Name(<<"i", "n", "t">>), <<BinOp(Name(<<"a">>),
            "FloorDiv", Constant(Z(2)))>>)>>)), Expr(Call(Name(<<"p", "r", "i", "n", "t">>), <<Call(Name(<<"i", "n", "t">>),
            <<BinOp(Name(<<"a">>), "Mod", Constant(Z(3)))>>)>>)), Expr(Call(Name(<<"p", "r", "i", "n", "t">>),
            <<Call(Name(<<"i", "n", "t">>), <<Compare(Name(<<"a">>), <<"Eq">>, <<Constant(Z(3))>>)>>)>>)),
            Expr(Call(Name(<<"p", "r", "i", "n", "t">>), <<Call(Name(<<"i", "n", "t">>), <<Compare(Name(<<"a">>),
            <<"NotEq">>, <<Constant(Z(3))>>)>>)>>)), Expr(Call(Name(<<"p", "r", "i", "n", "t">>),
            <<Call(Name(<<"i", "n", "t">>), <<Compare(Name(<<"a">>), <<"Lt">>, <<Constant(Z(3))>>)>>)>>)),
            Expr(Call(Name(<<"p", "r", "i", "n", "t">>), <<Call(Name(<<"i", "n", "t">>), <<Compare(Name(<<"a">>),
            <<"Gt">>, <<Constant(Z(3))>>)>>)>>)), Expr(Call(Name(<<"p", "r", "i", "n", "t">>), <<Call(Name(<<"i", "n", "t">>),
            <<Compare(Name(<<"a">>), <<"LtE">>, <<Constant(Z(3))>>)>>)>>)), Expr(Call(Name(<<"p", "r", "i", "n", "t">>),
            <<Call(Name(<<"i", "n", "t">>), <<Compare(Name(<<"a">>), <<"GtE">>, <<Constant(Z(3))>>)>>)>>))>>)

\* sums and products that leave the 32-bit range
OverflowScript ==
    Module(<<Assign(<<Name(<<"x">>)>>, Constant(Z(2147483647))), AugAssign(Name(<<"x">>),
            "Add", Call(Name(<<"i", "n", "t">>), <<Call(Name(<<"i", "n", "p", "u", "t">>), <<>>)>>)), Expr(Call(Name(<<"p", "r", "i", "n", "t">>),
            <<Call(Name(<<"i", "n", "t">>), <<Name(<<"x">>)>>)>>)), Expr(Call(Name(<<"p", "r", "i", "n", "t">>),
            <<Call(Name(<<"i", "n", "t">>), <<BinOp(Name(<<"x">>), "Mult", Constant(Z(2)))>>)>>)),
            Expr(Call(Name(<<"p", "r", "i", "n", "t">>), <<Call(Name(<<"i", "n", "t">>), <<BinOp(UnaryOp("USub",
            Name(<<"x">>)), "Sub", Name(<<"x">>))>>)>>))>>)

\* the remainder of a division by a negative number
ModSignScript ==
    Module(<<Expr(Call(Name(<<"p", "r", "i", "n", "t">>), <<Call(Name(<<"i", "n", "t">>), <<BinOp(Constant(Z(7)),
            "Mod", UnaryOp("USub", Constant(Z(2))))>>)>>))>>)

\* a second argument that reads the variable of the caller
ArgClobberScript ==
    Module(<<FunctionDef(<<"f">>, <<<<"a">>, <<"b">>>>, <<Return(Name(<<"b">>))>>), Assign(<<Name(<<"x">>)>>,
            Constant(Z(5))), Expr(Call(Name(<<"p", "r", "i", "n", "t">>), <<Call(Name(<<"i", "n", "t">>),
            <<Call(Name(<<"f">>), <<Constant(Z(1)), Name(<<"x">>)>>)>>)>>))>>)

\* a variable first assigned after the call in the text, before it in the run
LateLocalScript ==
    Module(<<FunctionDef(<<"g">>, <<<<"a">>>>, <<Assign(<<Name(<<"b">>)>>, Name(<<"a">>)),
            Return(Name(<<"a">>))>>), Assign(<<Name(<<"i">>)>>, Constant(Z(0))), While(Compare(Name(<<"i">>),
            <<"Lt">>, <<Constant(Z(2))>>), <<Expr(Call(Name(<<"g">>), <<BinOp(Name(<<"i">>),
            "Add", Constant(Z(6)))>>)), If(Compare(Name(<<"i">>), <<"Eq">>, <<Constant(Z(0))>>),
            <<Assign(<<Name(<<"y">>)>>, Constant(Z(5)))>>, <<>>), Expr(Call(Name(<<"p", "r", "i", "n", "t">>),
            <<Call(Name(<<"i", "n", "t">>), <<Name(<<"y">>)>>)>>)), AugAssign(Name(<<"i">>),
            "Add", Constant(Z(1)))>>)>>)

\* an augmented assignment whose value assigns the target
AugWalrusScript ==
    Module(<<Assign(<<Name(<<"x">>)>>, Constant(Z(1))), AugAssign(Name(<<"x">>), "Add",
            NamedExpr(Name(<<"x">>), Constant(Z(5)))), Expr(Call(Name(<<"p", "r", "i", "n", "t">>),
            <<Call(Name(<<"i", "n", "t">>), <<Name(<<"x">>)>>)>>))>>)

\* a call whose argument assigns a new variable, inside a function
StrayReturnScript ==
    Module(<<FunctionDef(<<"f">>, <<<<"a">>>>, <<Return(Name(<<"a">>))>>), FunctionDef(<<"g">>,
            <<<<"b">>>>, <<Expr(Call(Name(<<"f">>), <<NamedExpr(Name(<<"c">>), Constant(Z(1)))>>)),
            Return(Name(<<"b">>))>>), Assign(<<Name(<<"x">>)>>, Constant(Z(50000))),
            Expr(Call(Name(<<"g">>), <<Constant(Z(1))>>))>>)

\* test_nested_break, with shorter loops
NestedBreakScript ==
    Module(<<Assign(<<Name(<<"x">>)>>, Constant(Z(0))), Assign(<<Name(<<"y">>)>>,
            Constant(Z(0))), While(Constant(Z(1)), <<Assign(<<Name(<<"x">>)>>, Constant(Z(0))),
            While(Constant(Z(1)), <<Expr(Call(Name(<<"p", "r", "i", "n", "t">>), <<Call(Name(<<"i", "n", "t">>),
            <<Name(<<"x">>)>>)>>)), Expr(Call(Name(<<"p", "r", "i", "n", "t">>), <<Call(Name(<<"i", "n", "t">>),
            <<Name(<<"y">>)>>)>>)), AugAssign(Name(<<"x">>), "Add", Constant(Z(1))),
            If(Compare(Name(<<"x">>), <<"Gt">>, <<Constant(Z(1))>>), <<Break>>,
            <<>>)>>), If(Compare(Name(<<"y">>), <<"Gt">>, <<Constant(Z(0))>>), <<Break>>,
            <<>>), AugAssign(Name(<<"y">>), "Add", Constant(Z(1)))>>)>>)

\* test_nested_continue, with shorter loops and the values printed
NestedContinueScript ==
    Module(<<Assign(<<Name(<<"x">>)>>, Constant(Z(0))), Assign(<<Name(<<"y">>)>>,
            Constant(Z(0))), While(Compare(Name(<<"y">>), <<"Lt">>, <<Constant(Z(3))>>),
            <<AugAssign(Name(<<"y">>), "Add", Constant(Z(1))), Assign(<<Name(<<"x">>)>>,
            Constant(Z(0))), If(Compare(BinOp(Name(<<"y">>), "Mod", Constant(Z(3))),
            <<"Eq">>, <<Constant(Z(0))>>), <<Continue>>, <<>>), While(Compare(Name(<<"x">>),
            <<"Lt">>, <<Constant(Z(3))>>), <<AugAssign(Name(<<"x">>), "Add", Constant(Z(1))),
            If(Compare(BinOp(Name(<<"x">>), "Mod", Constant(Z(2))), <<"Eq">>, <<Constant(Z(0))>>),
            <<Continue>>, <<>>), Expr(Call(Name(<<"p", "r", "i", "n", "t">>), <<Call(Name(<<"i", "n", "t">>),
            <<Name(<<"x">>)>>)>>))>>), Expr(Call(Name(<<"p", "r", "i", "n", "t">>), <<Call(Name(<<"i", "n", "t">>),
            <<Name(<<"y">>)>>)>>))>>)>>)

\* and/or whose right operand assigns a variable or calls a function that prints
ShortCircuitScript ==
    Module(<<FunctionDef(<<"f">>, <<<<"a">>>>, <<Expr(Call(Name(<<"p", "r", "i", "n", "t">>), <<Call(Name(<<"i", "n", "t">>),
            <<Name(<<"a">>)>>)>>)), Return(Name(<<"a">>))>>), Assign(<<Name(<<"x">>)>>,
            Constant(Z(1))), Expr(Call(Name(<<"p", "r", "i", "n", "t">>), <<Call(Name(<<"i", "n", "t">>),
            <<BoolOp("And", <<Constant(Z(0)), NamedExpr(Name(<<"x">>), Constant(Z(5)))>>)>>)>>)),
            Expr(Call(Name(<<"p", "r", "i", "n", "t">>), <<Call(Name(<<"i", "n", "t">>), <<BoolOp("Or", <<Constant(Z(3)),
            NamedExpr(Name(<<"x">>), Constant(Z(7)))>>)>>)>>)), Expr(Call(Name(<<"p", "r", "i", "n", "t">>),
            <<Call(Name(<<"i", "n", "t">>), <<Name(<<"x">>)>>)>>)), Expr(Call(Name(<<"p", "r", "i", "n", "t">>),
            <<Call(Name(<<"i", "n", "t">>), <<BoolOp("And", <<Constant(Z(2)), NamedExpr(Name(<<"x">>),
            Constant(Z(9)))>>)>>)>>)), Expr(Call(Name(<<"p", "r", "i", "n", "t">>), <<Call(Name(<<"i", "n", "t">>),
            <<BoolOp("Or", <<Constant(Z(0)), NamedExpr(Name(<<"x">>), Constant(Z(4)))>>)>>)>>)),
            Expr(Call(Name(<<"p", "r", "i", "n", "t">>), <<Call(Name(<<"i", "n", "t">>), <<Name(<<"x">>)>>)>>)),
            Expr(Call(Name(<<"p", "r", "i", "n", "t">>), <<Call(Name(<<"i", "n", "t">>), <<BoolOp("And", <<Constant(Z(0)),
            Call(Name(<<"f">>), <<Constant(Z(6))>>)>>)>>)>>)), Expr(Call(Name(<<"p", "r", "i", "n", "t">>),
            <<Call(Name(<<"i", "n", "t">>), <<BoolOp("Or", <<Constant(Z(8)), Call(Name(<<"f">>),
            <<Constant(Z(6))>>)>>)>>)>>)), Expr(Call(Name(<<"p", "r", "i", "n", "t">>), <<Call(Name(<<"i", "n", "t">>),
            <<BoolOp("And", <<Constant(Z(8)), Call(Name(<<"f">>), <<Constant(Z(6))>>)>>)>>)>>)),
            Expr(Call(Name(<<"p", "r", "i", "n", "t">>), <<Call(Name(<<"i", "n", "t">>), <<BoolOp("Or", <<Constant(Z(0)),
            Call(Name(<<"f">>), <<Constant(Z(0))>>)>>)>>)>>))>>)

\* and/or whose right operand reads the console
SkippedReadScript ==
    Module(<<Expr(Call(Name(<<"p", "r", "i", "n", "t">>), <<Call(Name(<<"i", "n", "t">>), <<BoolOp("And",
            <<Constant(Z(0)), Call(Name(<<"i", "n", "t">>), <<Call(Name(<<"i", "n", "p", "u", "t">>), <<>>)>>)>>)>>)>>)),
            Expr(Call(Name(<<"p", "r", "i", "n", "t">>), <<Call(Name(<<"i", "n", "t">>), <<BoolOp("Or", <<Constant(Z(7)),
            Call(Name(<<"i", "n", "t">>), <<Call(Name(<<"i", "n", "p", "u", "t">>), <<>>)>>)>>)>>)>>)), Assign(<<Name(<<"a">>)>>,
            Call(Name(<<"i", "n", "t">>), <<Call(Name(<<"i", "n", "p", "u", "t">>), <<>>)>>)), Expr(Call(Name(<<"p", "r", "i", "n", "t">>),
            <<Call(Name(<<"i", "n", "t">>), <<Name(<<"a">>)>>)>>))>>)

\* a sum whose right operand is a call with an argument that assigns a new variable
LostOperandScript ==
    Module(<<FunctionDef(<<"f">>, <<<<"a">>>>, <<Return(Name(<<"a">>))>>), FunctionDef(<<"g">>,
            <<<<"b">>>>, <<Return(BinOp(Name(<<"b">>), "Add", Call(Name(<<"f">>), <<NamedExpr(Name(<<"c">>),
            Constant(Z(1)))>>)))>>), Expr(Call(Name(<<"p", "r", "i", "n", "t">>), <<Call(Name(<<"i", "n", "t">>),
            <<Call(Name(<<"g">>), <<Constant(Z(5))>>)>>)>>))>>)

\* operands within operands, with calls among them
NestedOperandsScript ==
    Module(<<FunctionDef(<<"f">>, <<<<"a">>>>, <<Return(BinOp(Name(<<"a">>), "Mult",
            Constant(Z(2))))>>), Assign(<<Name(<<"x">>)>>, Constant(Z(3))), Expr(Call(Name(<<"p", "r", "i", "n", "t">>),
            <<Call(Name(<<"i", "n", "t">>), <<BinOp(Name(<<"x">>), "Sub", BinOp(Call(Name(<<"f">>),
            <<BinOp(Name(<<"x">>), "Add", Constant(Z(1)))>>), "Sub", Compare(Name(<<"x">>),
            <<"Lt">>, <<BinOp(Call(Name(<<"f">>), <<Name(<<"x">>)>>), "Sub", Constant(Z(1)))>>)))>>)>>)),
            Expr(Call(Name(<<"p", "r", "i", "n", "t">>), <<Call(Name(<<"i", "n", "t">>), <<BinOp(Constant(Z(1)),
            "Add", BinOp(Compare(Constant(Z(2)), <<"Lt">>, <<BinOp(Constant(Z(3)),
            "Add", Call(Name(<<"f">>), <<Constant(Z(1))>>))>>), "Mult", Constant(Z(4))))>>)>>))>>)

\* a function defined again with its parameters in the other order
RedefinedScript ==
    Module(<<FunctionDef(<<"f">>, <<<<"a">>, <<"b">>>>, <<Return(Name(<<"a">>))>>), FunctionDef(<<"f">>,
            <<<<"b">>, <<"a">>>>, <<Return(Name(<<"a">>))>>), Expr(Call(Name(<<"p", "r", "i", "n", "t">>),
            <<Call(Name(<<"i", "n", "t">>), <<Call(Name(<<"f">>), <<Constant(Z(1)), Constant(Z(2))>>)>>)>>))>>)

\* a function that defines a function and then reads its own parameter
NestedDefScript ==
    Module(<<Assign(<<Name(<<"y">>)>>, Constant(Z(0))), Assign(<<Name(<<"x">>)>>,
            Constant(Z(1))), FunctionDef(<<"o", "u", "t", "e", "r">>, <<<<"x">>>>, <<FunctionDef(<<"i", "n", "n", "e", "r">>,
            <<<<"b">>>>, <<Return(Name(<<"b">>))>>), Return(Name(<<"x">>))>>), Expr(Call(Name(<<"p", "r", "i", "n", "t">>),
            <<Call(Name(<<"i", "n", "t">>), <<Call(Name(<<"o", "u", "t", "e", "r">>), <<Constant(Z(5))>>)>>)>>))>>)

\* a function that is defined twice and never called
UncalledTwiceScript ==
    Module(<<FunctionDef(<<"h">>, <<<<"a">>>>, <<Return(Name(<<"a">>))>>), FunctionDef(<<"h">>,
            <<<<"a">>>>, <<Return(BinOp(Name(<<"a">>), "Add", Constant(Z(1))))>>),
            Expr(Call(Name(<<"p", "r", "i", "n", "t">>), <<Call(Name(<<"i", "n", "t">>), <<Constant(Z(3))>>)>>))>>)

\* a call of an undefined function that is never run
DeadCallScript ==
    Module(<<If(Constant(Z(0)), <<Expr(Call(Name(<<"g">>), <<Constant(Z(1))>>))>>,
            <<>>), Expr(Call(Name(<<"p", "r", "i", "n", "t">>), <<Call(Name(<<"i", "n", "t">>), <<Constant(Z(2))>>)>>))>>)

(***************************************************************************)
(* do_test_script(script, lines) for scripts and console inputs drawn from *)
(* bounded sets.                                                           *)
(***************************************************************************)
MaxFact == 5     \* the argument of fact
MaxFib == 4      \* the argument of fib
MaxChoose == 3   \* the first argument of choose

\* the scripts that call a function of theirs from itself
RecursionScripts ==
    {FactScript(n) : n \in 1..MaxFact}
    \cup {FibScript(n) : n \in 0..MaxFib}
    \cup {ChooseScript(n[1], n[2]) : n \in {m \in (0..MaxChoose) \X (0..MaxChoose) : m[2] <= m[1]}}

\* n assignments to n variables: with the five registers of the compiler
\* they make n + 5 register names
ManyLocalsScript(n) ==
    Module([i \in 1..n |-> Assign(<<Name(<<"v">> \o Str(i))>>, Constant(Z(i)))]
           \o <<Expr(Call(Name(<<"p", "r", "i", "n", "t">>),
                    <<Call(Name(<<"i", "n", "t">>), <<Name(<<"v">> \o Str(n))>>)>>))>>)
\* 31, 32 and 33 register names
ManyLocalsScripts == {ManyLocalsScript(n) : n \in 26..28}

\* the scripts that read no input
PlainScripts ==
    RecursionScripts \cup ManyLocalsScripts
    \cup {BoolScript, BinopScript, ContinueScript, BreakScript, WalrusScript,
          ModSignScript, ArgClobberScript, LateLocalScript, AugWalrusScript,
          StrayReturnScript, DeadCallScript,
          NestedBreakScript, NestedContinueScript, ShortCircuitScript,
          LostOperandScript, NestedOperandsScript, RedefinedScript, NestedDefScript,
          UncalledTwiceScript}

\* the scripts that read a line
ReadingScripts == {OperatorsScript, OverflowScript, SkippedReadScript}

\* console texts: no line, a line of one digit, a line that is no number,
\* a line of two digits
ConsoleTexts == {<<>>, <<"0">>, <<"3">>, <<"7">>, <<"x">>, <<"1", "2">>}

Cases ==
    {[script |-> s, text |-> <<>>] : s \in PlainScripts}
    \cup {[script |-> s, text |-> t] : s \in ReadingScripts, t \in ConsoleTexts}

\* the state do_test_script(script, text) starts from: execute_python gives
\* exec the lines of the text, execute_worm gives StaticConsole the text
\* itself, and iter(text) yields its characters
Start(script, text) ==
    /\ source = script
    /\ python = PythonInit(script, splitlines(text))
    /\ input = [i \in 1..Len(text) |-> <<text[i]>>]
    /\ output = <<>>
    /\ error = <<>>
    /\ commands = <<>>
    /\ registers = [r \in 0..31 |-> Zero]
    /\ mem = [k \in {} |-> Zero]
    /\ pointer = Zero
    /\ code = <<>>
    /\ parsed_val = Unset
    /\ named_val = Unset
    /\ resolved_val = Unset
    /\ passes = <<>>
    /\ debug = NoDebug
    /\ shadow = NoShadow
    /\ ctl = "python"
    /\ exc = "none"

NextWorm ==
    \/ execute_python \/ execute_worm
    \/ interpret_parse \/ interpret_name \/ interpret_resolve
    \/ interpret_errors \/ interpret_execute
    \/ add \/ sub \/ mul \/ div \/ rem
    \/ seq \/ sne \/ slt \/ sgt \/ sle \/ sge
    \/ ld \/ st \/ li \/ read \/ write \/ j \/ jeqz \/ halt
    \/ execute_exit

InitWorm == \E c \in Cases : Start(c.script, c.text)

SpecWorm == InitWorm /\ [][NextWorm]_vars

(***************************************************************************)
(* Properties of compiled scripts against the reference run                *)
(***************************************************************************)
\* the lines the reference run printed, as the VM would write them
ReferenceOutput ==
    [i \in 1..Len(python.output) |-> IntStr(bound_int(python.output[i]))]

\* C4: for a script of the supported subset, compiling it and interpreting
\* the emitted SLIM writes the same output lines as the reference run of
\* the script, up to wrap-around modulo 2^32.
C4_SameOutput ==
    (Ended /\ Ran("execute")) => output = ReferenceOutput

\* the register the assembler gave a name of the compiled code
Slot(name) == named_val.value.registers[name]

\* the registers a call sequence has to bring back: the variables of the
\* caller assigned when it began, the pending operands arg-k and the stack
\* pointer
Kept(frame) ==
    frame.bound
    \cup Elems(Args(debug.sites[frame.site].nargs))
    \cup {STACK_POINTER}

\* C5: when execution reaches the end of the restore sequence of a call,
\* every variable of the caller, every arg-k live at the call and the stack
\* pointer hold the values they had when the call sequence began, whatever
\* the function called has written, and the restore pops the locals and
\* then the arguments, in the reverse of the order they were pushed in.
C5_CallRestores ==
    (ctl = "execute" /\ AtEnd(Returned(shadow))) =>
        LET frame == Returned(shadow).frames[1]
            site == debug.sites[frame.site]
        IN  /\ \A name \in Kept(frame) :
                  registers[Slot(name)] = frame.regs[Slot(name)]
            /\ site.restored = site.nlocals

\* the call of the reference run that the latest jump to a function stands for
Arrival == python.calls[shadow.arrivals]

\* C6: when control arrives at the label of a called function, the i-th
\* parameter slot local-i holds the value of the i-th argument expression
\* evaluated over the caller's variables as they were at the call.
C6_ArgumentsArrive ==
    (ctl = "execute" /\ shadow.fresh /\ shadow.arrivals <= Len(python.calls)) =>
        \A i \in 1..Len(Arrival.args) :
            registers[Slot(local_name(i - 1))] = bound_int(Arrival.args[i])

Recursive == source \in RecursionScripts
\* the stack cells below the stack pointer of the frame: the left operands
\* pending and the registers saved when its call sequence began
Pending(frame) ==
    {k \in DOMAIN frame.mem : IntLt(k, frame.regs[Slot(STACK_POINTER)])}

InnerReturn ==
    /\ Recursive /\ ctl = "execute" /\ AtEnd(Returned(shadow))
    /\ Len(shadow.frames) >= 2
    /\ Pending(Returned(shadow).frames[1]) # {}

\* the while statements whose commands include the command with index p
Enclosing(p) == {w \in debug.whiles : w.start <= p /\ p < w.end}
\* the innermost of them
Nearest(p) == CHOOSE w \in Enclosing(p) : \A u \in Enclosing(p) : u.start <= w.start
\* where the jump of a break or a continue has to go
Target(jump) ==
    IF jump.kind = "break" THEN Nearest(jump.at).end ELSE Nearest(jump.at).start

\* C28: the jump of a break goes to the command after the nearest enclosing
\* while statement and the jump of a continue to the first command of its
\* test; while the script is compiled the stacks of break labels and of
\* continue labels are as deep as the number of while statements being
\* visited, and every while statement leaves them as it found them.
C28_LoopJumps ==
    /\ [][(ctl = "execute" /\ ctl' = "execute") =>
            \A jump \in debug.jumps :
                Z(jump.at) = pointer =>
                    Enclosing(jump.at) # {} /\ pointer' = Z(Target(jump))]_vars
    /\ [](\A d \in debug.depths : d[1] = d[3] /\ d[2] = d[3])
    /\ [](\A w \in debug.whiles : w.restored)

\* the break of the inner loop of test_nested_break has jumped to the
\* command after the inner loop
C28_Witness ==
    /\ source = NestedBreakScript
    /\ ctl = "execute"
    /\ \E jump \in debug.jumps :
          /\ jump.kind = "break"
          /\ shadow.prev = jump.at
          /\ Cardinality(Enclosing(jump.at)) = 2
          /\ pointer = Z(Nearest(jump.at).end)

\* the commands between the test of a BoolOp and its right operand
SkipRegion(b) == {Z(p) : p \in (b.test + 1)..(b.first - 1)}
\* the value of the left operand tells to skip the right one
Skips(b, a) == IF b.op = "And" THEN a = Zero ELSE a # Zero
\* a step leaves the console, the memory and every register but jump-label
\* as they are
NoEffect ==
    /\ input' = input /\ output' = output /\ mem' = mem
    /\ \A r \in 0..31 : r # Slot(JUMP_LABEL) => registers'[r] = registers[r]

\* C29: the code of the right operand of `a and b` runs only when a is not
\* zero, that of `a or b` only when a is zero; when it is skipped result
\* keeps the value of a and nothing the right operand does happens: no
\* read, no call, no assignment; the values printed are those of the script.
C29_ShortCircuit ==
    /\ [][(ctl = "execute" /\ ctl' = "execute") =>
            \A b \in debug.boolops :
                /\ (pointer = Z(b.test) /\ Skips(b, registers[Slot(RESULT)])) =>
                        pointer' \in SkipRegion(b) \cup {Z(b.last)} /\ NoEffect
                /\ (pointer = Z(b.test) /\ ~Skips(b, registers[Slot(RESULT)])) =>
                        pointer' = Z(b.first) /\ NoEffect
                /\ pointer \in SkipRegion(b) =>
                        pointer' \in SkipRegion(b) \cup {Z(b.last)} /\ NoEffect
                /\ pointer' = Z(b.first) =>
                        pointer = Z(b.test) /\ ~Skips(b, registers[Slot(RESULT)])]_vars
    /\ []((source \in {BoolScript, ShortCircuitScript} /\ Ended /\ Ran("execute")) =>
            ctl = "done" /\ output = ReferenceOutput)
    /\ []((source = SkippedReadScript /\ ctl = "done") =>
            Len(output) = 3 /\ SubSeq(output, 1, 2) = <<Str(0), Str(7)>>)

\* 0 and int(input()) and 7 or int(input()) have left the line 3 of the
\* console to the int(input()) after them
C29_Witness ==
    /\ source = SkippedReadScript
    /\ ctl = "done"
    /\ output = <<Str(0), Str(7), Str(3)>>
    /\ input = <<>>

\* the names in register positions of the command record r
RegisterOperands(r) ==
    IF InCommands(r.cmd)
    THEN {r.args[i] : i \in {k \in 1..Len(r.args) :
                                /\ k <= Len(Command(r.cmd).roles)
                                /\ Command(r.cmd).roles[k] = Value_Register}}
    ELSE {}
\* the text the compiler returned has been parsed
Emitted == debug.registers # {} /\ Ran("parse") /\ IsSuccess(parsed_val)

\* C30: the text of a successful compilation begins with an
\* allocate-registers directive that names at most 32 distinct registers,
\* among them every register operand of its commands; when the traversal
\* has used more than 32 register names compile fails and returns no text.
C30_RegisterBudget ==
    /\ Emitted =>
          LET alloc == parsed_val.value[1]
          IN  /\ alloc.type = "ParsedAlloc"
              /\ Cardinality(Elems(alloc.names)) <= 32
              /\ Cardinality(Elems(alloc.names)) = Len(alloc.names)
              /\ Elems(alloc.names) = debug.registers
              /\ \A k \in 2..Len(parsed_val.value) :
                    /\ parsed_val.value[k].type # "ParsedAlloc"
                    /\ parsed_val.value[k].type = "ParsedCommand" =>
                          RegisterOperands(parsed_val.value[k]) \subseteq Elems(alloc.names)
    /\ Cardinality(debug.registers) > 32 =>
          ctl = "raised" /\ exc = "SystemExit" /\ code = <<>> /\ passes = <<>>

\* a script of 28 variables has used 33 register names and compile has
\* exited
C30_Witness ==
    /\ source = ManyLocalsScript(28)
    /\ Cardinality(debug.registers) = 33
    /\ ctl = "raised"
    /\ exc = "SystemExit"

\* a script of 27 variables has been compiled with 32 registers and has run
FullBudgetRun ==
    /\ source = ManyLocalsScript(27)
    /\ Cardinality(debug.registers) = 32
    /\ ctl = "done"
    /\ output = <<Str(27)>>

\* the command with index p belongs to the return of a function, from the
\* pop of jump-label to the jump
InReturn(p) == \E r \in debug.returns : r.at <= p /\ p <= r.jump
\* it is a pop of the restore sequence of a call
InRestore(p) ==
    \E s \in 1..Len(debug.sites) : debug.sites[s].call < p /\ p < debug.sites[s].end
\* the function called last left through a return statement and its caller
\* is past the restore sequence
BackFromReturn ==
    /\ ctl = "execute"
    /\ AtEnd(Returned(shadow))
    /\ shadow.ret.kind = "explicit"

\* C33: when a function has left through `return e` and its caller is past
\* the restore sequence of the call, result holds the value e had; no
\* command of a return or of a restore sequence changes result.
C33_ResultSurvives ==
    /\ [](BackFromReturn => registers[Slot(RESULT)] = shadow.ret.value)
    /\ [][(ctl = "execute" /\ ctl' = "execute"
            /\ (InReturn(ToSmall(pointer)) \/ InRestore(ToSmall(pointer))))
          => registers'[Slot(RESULT)] = registers[Slot(RESULT)]]_vars

\* an inner fact(3) has returned 6 to fact(4), which has its parameter back
C33_Witness ==
    /\ source = FactScript(4)
    /\ BackFromReturn
    /\ Len(shadow.frames) >= 2
    /\ debug.sites[shadow.frames[1].site].nlocals = 1
    /\ registers[Slot(RESULT)] = Z(6)
    /\ shadow.ret.value = Z(6)
    /\ registers[Slot(local_name(0))] = Z(4)

\* the operator command of an operation is about to run
AtOperator(o) == ctl = "execute" /\ pointer = Z(o.op)

\* C34: arg_count is after the lowering of an expression what it was before
\* and 0 where a statement is lowered; the left operand of a binary operation
\* or a comparison is kept in arg-k, k the arg_count on entry, and when the
\* operator command reads arg-k it holds the value the left operand had,
\* whatever the right operand contains.
C34_OperandsHeld ==
    /\ \A b \in debug.balance :
          /\ b.expression => b.exit = b.entry
          /\ ~b.expression => b.entry = 0
    /\ \A o \in debug.operands :
          /\ o.reg = arg_name(o.entry)
          /\ AtOperator(o) =>
                /\ shadow.held # <<>>
                /\ shadow.held[1].op = o.op
                /\ registers[Slot(o.reg)] = shadow.held[1].value

\* fib(4) = fib(3) + fib(2): the sum of fib(2) reads the result of its first
\* call from arg-0 while the sum of fib(4) is waiting for fib(2)
NestedOperandRun ==
    /\ source = FibScript(4)
    /\ \E o \in debug.operands :
          /\ AtOperator(o)
          /\ commands[o.op + 1].cmd = "add"
          /\ Len(shadow.held) = 2
          /\ shadow.held[1].op = o.op /\ shadow.held[2].op = o.op
          /\ registers[Slot(o.reg)] = shadow.held[1].value

\* the variables looked up in scope before the i-th lookup
SeenBefore(i, scope) ==
    {debug.lookups[k].name : k \in {m \in 1..(i - 1) : debug.lookups[m].scope = scope}}

\* C35: within one function the variables are given local-0, local-1, ... in
\* the order the lowering first meets them, no two of them the same register
\* and none of them a second register later; the i-th parameter of every
\* function definition is bound to local-i before the body is lowered.
C35_SlotsInOrder ==
    /\ \A i \in 1..Len(debug.lookups) :
          LET l == debug.lookups[i]
          IN  /\ l.name \notin SeenBefore(i, l.scope) =>
                    l.slot = local_name(Cardinality(SeenBefore(i, l.scope)))
              /\ \A k \in 1..(i - 1) :
                    (debug.lookups[k].scope = l.scope /\ debug.lookups[k].name = l.name)
                        => debug.lookups[k].slot = l.slot
    /\ \A d \in debug.defs :
          \A i \in 1..Len(d.slots) : d.slots[i] = local_name(i - 1)

\* choose(n, k) is compiled: its parameters have local-0 and local-1 and the
\* variables of the module are looked up apart from them
TwoParametersRun ==
    /\ source = ChooseScript(3, 1)
    /\ \E d \in debug.defs : d.slots = <<local_name(0), local_name(1)>>
    /\ Len(debug.lookups) > 2

\* the command at the pointer is the jump of a return
AtReturnJump == ctl = "execute" /\ \E r \in debug.returns : Z(r.jump) = pointer
\* the call sequence begun last whose function has not returned
Unreturned == debug.sites[shadow.frames[1].site]
\* p is the index of a command of the function body b
InBody(p, b) == IntLe(Z(b.entry), p) /\ IntLt(p, Z(b.end))

\* C36: the jump of every return that is run, of a return statement or of
\* the end of a function body, goes to the return site of the call begun
\* last whose function has not returned, the address that call pushed; and
\* control comes into a function body from outside only at its first
\* command, by the jump of a call sequence of that function.
C36_CallsAndReturnsMatch ==
    /\ [][AtReturnJump =>
            /\ shadow.frames # <<>>
            /\ shadow.frames[1].state = "called"
            /\ registers[Slot(JUMP_LABEL)] = Z(Unreturned.call + 1)
            /\ ctl' = "execute"
            /\ pointer' = Z(Unreturned.call + 1)]_vars
    /\ [][(ctl = "execute" /\ ctl' = "execute" /\ ~AtReturnJump) =>
            \A b \in debug.bodies :
                (~InBody(pointer, b) /\ InBody(pointer', b)) =>
                    /\ pointer' = Z(b.entry)
                    /\ \E s \in 1..Len(debug.sites) :
                          /\ Z(debug.sites[s].call) = pointer
                          /\ debug.sites[s].func = b.name]_vars

\* the inner fib(1) of fib(3) returns to the call in fib(2), the call begun
\* last, while the call of fib(2) in fib(3) waits
NestedReturnRun ==
    /\ source = FibScript(3)
    /\ AtReturnJump
    /\ Len(shadow.frames) = 3
    /\ shadow.frames[1].state = "called"
    /\ shadow.frames[2].state = "called"
    /\ registers[Slot(JUMP_LABEL)] = Z(Unreturned.call + 1)

\* the compiled code is running and the command at the pointer is cmd
Next_Is(cmd) ==
    /\ ctl = "execute"
    /\ InRange
    /\ Fetch.cmd = cmd
\* the command at the pointer is the second command of a push or of a pop
MidStack ==
    \/ Next_Is("ld")
    \/ Next_Is("add") /\ Arg(1) = Z(Slot(STACK_POINTER))
                      /\ commands[ToSmall(pointer)].cmd = "st"

\* C37: in a run of a compiled script stack-pointer is never negative and,
\* between pushes and pops, is the number of cells pushed and not popped;
\* every ld that is run reads a cell that a st has written; and stack-pointer
\* is 0 when the halt that ends the program is reached.
C37_StackDiscipline ==
    /\ (ctl = "execute" \/ (Ended /\ Ran("execute"))) =>
          /\ ~IsNeg(registers[Slot(STACK_POINTER)])
          /\ exc # "KeyError"
    /\ (ctl = "execute" /\ ~MidStack) => registers[Slot(STACK_POINTER)] = Z(shadow.cells)
    /\ Next_Is("ld") => Reg(Arg(2)) \in DOMAIN mem
    /\ (Next_Is("halt") /\ pointer = Z(Len(commands) - 1)) =>
          registers[Slot(STACK_POINTER)] = Zero

\* choose(3, 1): two calls deep, five cells are pushed
DeepStackRun ==
    /\ source = ChooseScript(3, 1)
    /\ ctl = "execute" /\ ~MidStack
    /\ Len(shadow.frames) >= 2
    /\ shadow.cells >= 5
    /\ registers[Slot(STACK_POINTER)] = Z(shadow.cells)

\* every function a call sequence jumps to has one definition in the script
CalledOnce ==
    \A s \in 1..Len(debug.sites) :
        Cardinality({b \in debug.bodies : b.name = debug.sites[s].func}) = 1
\* the label lines of the parsed text that declare name
LabelLines(parsed, name) ==
    {k \in 1..Len(parsed) : parsed[k].type = "ParsedLabel" /\ parsed[k].name = name}
\* the names of all its allocate-registers lines
Allocated(parsed) ==
    UNION {Elems(parsed[k].names) : k \in {m \in 1..Len(parsed) : parsed[m].type = "ParsedAlloc"}}

\* C39: the text compile returns for a script in which every called function
\* is defined exactly once is assembled without an error: every register
\* operand is allocated, every label loaded by li is declared by exactly one
\* label line, and no label is declared twice or has the name of a register.
C39_TextAssembles ==
    (debug.registers # {} /\ Ran("parse") /\ CalledOnce) =>
        /\ IsSuccess(parsed_val)
        /\ ctl # "name" => IsSuccess(named_val)
        /\ ctl \notin {"name", "resolve"} => IsSuccess(resolved_val)
        /\ \A k \in 1..Len(parsed_val.value) :
              LET r == parsed_val.value[k]
              IN  /\ r.type = "ParsedCommand" =>
                        /\ RegisterOperands(r) \subseteq Allocated(parsed_val.value)
                        /\ (r.cmd = <<"l", "i">> /\ ~IsLiteralArg(r.args[2])) =>
                              Cardinality(LabelLines(parsed_val.value, r.args[2])) = 1
                  /\ r.type = "ParsedLabel" =>
                        /\ LabelLines(parsed_val.value, r.name) = {k}
                        /\ r.name \notin Allocated(parsed_val.value)

\* the text of choose, with its seven labels and two call sequences, has
\* been assembled
AssembledRun ==
    /\ source = ChooseScript(2, 1)
    /\ CalledOnce /\ Len(debug.sites) = 3
    /\ Ran("resolve") /\ IsSuccess(resolved_val)
    /\ Cardinality({k \in 1..Len(parsed_val.value) : parsed_val.value[k].type = "ParsedLabel"}) >= 7

====
